---- MODULE Spec2Model ----
(***************************************************************************)
(* A model of the bank-statement parser of universal_parser.py.            *)
(*                                                                         *)
(* Money is counted in hundredths of a rupee (paise), so 1.0 is 100 and a  *)
(* value rounded to two decimals is an integer.  Column and row indices    *)
(* keep Python's 0-based values; sequences are indexed at index + 1.       *)
(*                                                                         *)
(* Text is modelled as a sequence of pieces: a piece is a word or a run of *)
(* whitespace (" " is one blank, "  " is a longer run).  A table cell is a *)
(* lexical token: an empty cell, a row index, a date in a source format,   *)
(* an amount with its decoration, or text.                                 *)
(***************************************************************************)
EXTENDS Integers, Sequences, FiniteSets, TLC

\* ------------------------------------------------------------------ bounds
\* Longest list of raw transactions handed to _normalize.
MaxTxns == 3
\* Most pages of a document.
MaxPages == 2
\* the columns of a table without header
MaxCols == 3

\* ------------------------------------------------------- Python constants
\* None, for a numeric field (balance, opening_balance).
None == -1
\* The key is not in the dict (a fresh transaction has no opening_balance).
Absent == -2

\* float('nan'): like it, the value is neither == 0 nor > 0
NaN == -3

Abs(x) == IF x < 0 THEN -x ELSE x
Max(a, b) == IF a >= b THEN a ELSE b

\* ------------------------------------------------------------- cell tokens
Cell(k, n, s, w) == [k |-> k, n |-> n, s |-> s, w |-> w]
\* ''
Empty == Cell("empty", 0, "", <<>>)
\* a decimal row index such as '12'
Idx(n) == Cell("idx", n, "", <<>>)
\* the index cell '-' of an opening-balance marker row
Dash == Cell("dash", 0, "", <<>>)
\* a cell such as the superscript two: str.isdigit() holds, int() raises
Sup == Cell("sup", 0, "", <<>>)
\* the text 'nan', which float() reads as a number
NaNText == Cell("nan", 0, "", <<>>)
\* a date written in a source style: "d Mon Y" (01 Apr 2025), "d Mon Y1"
\* (1 Apr 2025), "d-m-Y" (01-04-2025), "d/m/Y" (01/04/2025), "iso"
Date(d, m, y, style) == Cell("date", y * 10000 + m * 100 + d, style, <<>>)
\* an amount of `paise` with decoration "", "-", "()", "DR", "CR", "Cr."
Amt(paise, deco) == Cell("amt", paise, deco, <<>>)
\* free text
Text(w) == Cell("text", 0, "", w)
\* a reference code such as 'UPI-123456' (s is its text)
Ref(s) == Cell("ref", 0, s, <<>>)
\* the None a date lexer returns
NoDate == Cell("none", 0, "", <<>>)

YearOf(c) == c.n \div 10000
MonthOf(c) == (c.n \div 100) % 100
DayOf(c) == c.n % 100

\* ------------------------------------------------------------------- text
IsWs(p) == p \in {" ", "  "}

RECURSIVE LStrip(_)
LStrip(w) == IF w # <<>> /\ IsWs(Head(w)) THEN LStrip(Tail(w)) ELSE w

RECURSIVE RStrip(_)
RStrip(w) ==
    IF w # <<>> /\ IsWs(w[Len(w)]) THEN RStrip(SubSeq(w, 1, Len(w) - 1)) ELSE w

\* str.strip()
Strip(w) == RStrip(LStrip(w))

RECURSIVE Squeeze(_)
Squeeze(w) ==
    IF w = <<>> THEN <<>>
    ELSE IF IsWs(Head(w))
         THEN <<" ">> \o Squeeze(LStrip(w))
         ELSE <<Head(w)>> \o Squeeze(Tail(w))

\* _RE_WHITESPACE.sub(' ', s).strip()
CollapseStrip(w) == Strip(Squeeze(w))

\* a + ' ' + b
JoinSp(a, b) == a \o <<" ">> \o b

\* str.lower(), on the vocabulary of the model
Lower(p) ==
    CASE p = "OPENING" -> "opening"
      [] p = "BALANCE" -> "balance"
      [] p = "SALARY"  -> "salary"
      [] p = "CREDIT"  -> "credit"
      [] p = "ATM"     -> "atm"
      [] p = "Date"    -> "date"
      [] p = "Narration" -> "narration"
      [] p = "Debit"   -> "debit"
      [] p = "Credit"  -> "credit"
      [] p = "Balance" -> "balance"
      [] p = "Withdrawal" -> "withdrawal"
      [] p = "Deposit" -> "deposit"
      [] p = "Sr"      -> "sr"
      [] p = "Chq"     -> "chq"
      [] p = "Account" -> "account"
      [] p = "Transactions" -> "transactions"
      [] p = "CNRB"    -> "cnrb"
      [] p = "Txn"     -> "txn"
      [] p = "Amount"  -> "amount"
      [] p = "Closing" -> "closing"
      [] p = "Kotak"   -> "kotak"
      [] OTHER -> p

LowerAll(w) == [i \in 1..Len(w) |-> Lower(w[i])]

\* `phrase in text`, piecewise
Contains(w, phrase) ==
    \E i \in 1..(Len(w) - Len(phrase) + 1) :
        SubSeq(w, i, i + Len(phrase) - 1) = phrase

\* ------------------------------------------------------------------ lexers
\* not str(c).strip()
IsBlank(c) == c.k = "empty"

\* str(c).strip() as pieces; a token that is not text is one opaque piece
CellText(c) ==
    IF c.k = "text" THEN Strip(c.w)
    ELSE IF c.k = "empty" THEN <<>>
    ELSE <<ToString(c)>>

RECURSIVE TextLen(_)
TextLen(w) == IF w = <<>> THEN 0 ELSE Len(Head(w)) + TextLen(Tail(w))

\* len(str(c).strip())
CellLen(c) ==
    CASE c.k = "text"  -> TextLen(Strip(c.w))
      [] c.k = "empty" -> 0
      [] c.k = "idx"   -> Len(ToString(c.n))
      [] c.k = "dash"  -> 1
      [] c.k = "sup"   -> 1
      [] c.k = "nan"   -> 3
      [] c.k = "ref"   -> Len(c.s)
      [] c.k = "amt"   -> Len(ToString(c.n \div 100)) + 3 + Len(c.s)
      [] c.k = "date"  -> IF c.s = "d Mon Y" THEN 11 ELSE 10
      [] OTHER -> 0

RECURSIVE SumCellLen(_)
SumCellLen(cells) ==
    IF cells = <<>> THEN 0 ELSE CellLen(Head(cells)) + SumCellLen(Tail(cells))

\* _cell(row, idx)
_cell(row, idx) == IF idx >= 0 /\ idx < Len(row) THEN row[idx + 1] ELSE Empty

\* _try_date(text): the matched date text, or None; the year must lie in
\* [2000, 2035].
_try_date(c) ==
    IF c.k = "date" /\ YearOf(c) >= 2000 /\ YearOf(c) <= 2035 THEN c ELSE NoDate

\* _parse_amt that reads amount cells only and takes the first ',' for the
\* decimal point
_parse_amt_comma(c) == IF c.k = "amt" THEN c.n \div 1000 ELSE 0

\* _parse_amt(text): parentheses, currency junk, a DR/CR tag and every '-'
\* are dropped and the rest goes to float(); a date written with '-' or an
\* index cell is then a number too, and so is the text 'nan'.
_parse_amt(c) ==
    CASE c.k = "amt" -> c.n
      [] c.k = "nan" -> NaN
      [] c.k = "idx" -> c.n * 100
      [] c.k = "date" /\ c.s = "d-m-Y" ->
            (DayOf(c) * 1000000 + MonthOf(c) * 10000 + YearOf(c)) * 100
      [] c.k = "date" /\ c.s = "iso" -> c.n * 100
      [] OTHER -> 0

\* _parse_amt_directed(text): <<debit, credit>>
_parse_amt_directed(c) ==
    LET amt == _parse_amt(c) IN
    IF IsBlank(c) \/ amt = 0 THEN <<0, 0>>
    ELSE IF c.k = "amt" /\ c.s \in {"()", "-", "DR"} THEN <<amt, 0>>
    ELSE IF c.k = "amt" /\ c.s \in {"CR", "Cr"} THEN <<0, amt>>
    ELSE <<amt, 0>>

\* _is_num(text): junk and a DR/CR tag are dropped, '-' and parentheses are not
_is_num(c) == (c.k = "amt" /\ c.s # "()") \/ c.k \in {"idx", "nan"}

\* _looks_like_ref(text)
_looks_like_ref(c) == c.k = "ref"

\* ' '.join(texts)
RECURSIVE JoinAll(_)
JoinAll(ts) ==
    IF ts = <<>> THEN <<>>
    ELSE IF Len(ts) = 1 THEN ts[1]
    ELSE JoinSp(ts[1], JoinAll(Tail(ts)))

RowTexts(row) == [i \in 1..Len(row) |-> CellText(row[i])]

_SKIP_PHRASES ==
    { <<"opening", " ", "balance">>, <<"closing", " ", "balance">>,
      <<"brought", " ", "forward">>, <<"carried", " ", "forward">>,
      <<"page", " ", "total">>, <<"grand", " ", "total">>,
      <<"statement", " ", "summary">>,
      <<"this", " ", "is", " ", "a", " ", "computer">>,
      <<"generated", " ", "on">>, <<"printed", " ", "on">>,
      <<"account", " ", "summary">>, <<"nominee">>,
      <<"ifsc", " ", "code">>, <<"end", " ", "of", " ", "statement">> }

_TITLE_PHRASES ==
    { <<"savings", " ", "account", " ", "transactions">>,
      <<"current", " ", "account", " ", "transactions">>,
      <<"account", " ", "transactions">>,
      <<"transaction", " ", "details">>,
      <<"statement", " ", "of", " ", "account">> }

_HEADER_MARKER_CELLS ==
    { <<"date">>, <<"description">>, <<"narration">>, <<"particulars">>,
      <<"withdrawal">>, <<"deposit">>, <<"balance">>, <<"debit">>, <<"credit">> }

\* _should_skip_row(row)
_should_skip_row(row) ==
    LET combined == LowerAll(Strip(JoinAll(RowTexts(row)))) IN
    \/ combined = <<>>
    \/ \E p \in _SKIP_PHRASES : Contains(combined, p)

\* _is_title_row(row)
_is_title_row(row) ==
    LET non_empty == SelectSeq(row, LAMBDA c : ~IsBlank(c)) IN
    /\ Len(non_empty) = 1
    /\ LowerAll(CellText(non_empty[1])) \in _TITLE_PHRASES

\* _is_header_row_repeat(row)
_is_header_row_repeat(row) ==
    Cardinality({i \in 1..Len(row) :
        LowerAll(CellText(row[i])) \in _HEADER_MARKER_CELLS}) >= 3

\* _RE_VALUE_DATE.sub('', desc), for the annotation in parentheses
VALUE_DATE == "(Value Date: 01-04-2025)"
RemoveValueDate(w) == SelectSeq(w, LAMBDA p : p # VALUE_DATE)

\* _RE_CHQ_SUFFIX.sub('', desc): a trailing cheque suffix and the blanks
\* before it
CHQ_SUFFIX == "Chq: 1234"
RemoveChqSuffix(w) ==
    LET r == RStrip(w) IN
    IF r # <<>> /\ r[Len(r)] = CHQ_SUFFIX THEN RStrip(SubSeq(r, 1, Len(r) - 1))
    ELSE w

\* set(col_map.values())
Values(col_map) == {col_map[r] : r \in DOMAIN col_map}

\* {col_map[k] for k in ('_index', 'reference') if k in col_map}
Ignored(col_map) == {col_map[r] : r \in DOMAIN col_map \cap {"_index", "reference"}}

\* 0-based column indices of a row
Cols(row) == 0..(Len(row) - 1)

\* the cells of `row` at the columns of S, in row order
CellsAt(row, S) ==
    LET F[i \in 0..Len(row)] ==
            IF i = 0 THEN <<>>
            ELSE IF (i - 1) \in S THEN Append(F[i - 1], row[i]) ELSE F[i - 1]
    IN  F[Len(row)]

\* _find_amts(row, col_map, ignored): <<debit, credit>>
_find_amts(row, col_map, ignored) ==
    LET mapped == Values(col_map) \cup ignored
        cand   == CellsAt(row, {ci \in Cols(row) : ci \notin mapped})
        nums   == SelectSeq(cand, LAMBDA c : _parse_amt(c) > 0)
    IN  IF nums = <<>> THEN <<0, 0>>
        ELSE IF Len(nums) = 1 THEN <<_parse_amt(nums[1]), 0>>
        ELSE <<_parse_amt(nums[1]), _parse_amt(nums[2])>>

\* the date _parse_row finds: the mapped date cell, else the first date in a
\* cell that is not ignored
RowDate(row, col_map, ignored) ==
    LET mappedDate == IF "date" \in DOMAIN col_map
                      THEN _try_date(_cell(row, col_map["date"]))
                      ELSE NoDate
        others == SelectSeq(CellsAt(row, Cols(row) \ ignored),
                            LAMBDA c : _try_date(c) # NoDate)
    IN  IF mappedDate # NoDate THEN mappedDate
        ELSE IF others # <<>> THEN _try_date(others[1])
        ELSE NoDate

\* the description _parse_row builds
RowDesc(row, col_map, ignored) ==
    LET fromCol == IF "description" \in DOMAIN col_map
                   THEN CellText(_cell(row, col_map["description"]))
                   ELSE <<>>
        mapped  == Values(col_map) \cup ignored
        parts   == SelectSeq(CellsAt(row, Cols(row) \ mapped),
                       LAMBDA c : /\ ~IsBlank(c)
                                  /\ ~_is_num(c)
                                  /\ _try_date(c) = NoDate
                                  /\ ~_looks_like_ref(c))
        desc    == IF Strip(fromCol) # <<>> THEN fromCol
                   ELSE JoinAll([i \in 1..Len(parts) |-> CellText(parts[i])])
    IN  CollapseStrip(RemoveChqSuffix(RemoveValueDate(desc)))

\* the raw transaction of _parse_row; NoTxn is its None
NoTxn == [date |-> NoDate, desc |-> <<>>, amount |-> 0, balance |-> None,
          type |-> "", category |-> "", ob |-> Absent]

\* _parse_row(row, col_map, ignored)
_parse_row(row, col_map, ignored) ==
    LET date == RowDate(row, col_map, ignored)
        amts == IF {"debit", "credit"} \subseteq DOMAIN col_map
                THEN <<_parse_amt(_cell(row, col_map["debit"])),
                       _parse_amt(_cell(row, col_map["credit"]))>>
                ELSE IF "amount" \in DOMAIN col_map
                THEN _parse_amt_directed(_cell(row, col_map["amount"]))
                ELSE _find_amts(row, col_map, ignored)
        debit  == amts[1]
        credit == amts[2]
        b == IF "balance" \in DOMAIN col_map
             THEN _parse_amt(_cell(row, col_map["balance"]))
             ELSE 0
    IN  IF Len(row) < 2 THEN NoTxn
        ELSE IF date = NoDate THEN NoTxn
        ELSE IF "_index" \in DOMAIN col_map
                /\ _cell(row, col_map["_index"]).k = "dash" THEN NoTxn
        ELSE IF debit = 0 /\ credit = 0 THEN NoTxn
        ELSE [date     |-> date,
              desc     |-> RowDesc(row, col_map, ignored),
              amount   |-> IF debit > 0 THEN debit ELSE credit,
              balance  |-> IF b > 0 THEN b ELSE None,
              type     |-> IF debit > 0 THEN "DR" ELSE "CR",
              category |-> "",
              ob       |-> Absent]

\* _get_continuation without its two early returns
_get_continuation_any(row, ignored) ==
    LET full == SelectSeq(CellsAt(row, Cols(row) \ ignored), LAMBDA c : ~IsBlank(c))
    IN  JoinAll([i \in 1..Len(full) |-> CellText(full[i])])

\* _get_continuation(row, ignored): the text to append, <<>> for ''
_get_continuation(row, ignored) ==
    LET cells == CellsAt(row, Cols(row) \ ignored)
        full  == SelectSeq(cells, LAMBDA c : ~IsBlank(c))
        text  == JoinAll([i \in 1..Len(full) |-> CellText(full[i])])
        chars == IF full = <<>> THEN 0 ELSE SumCellLen(full) + Len(full) - 1
    IN  IF \E i \in 1..Len(cells) : _try_date(cells[i]) # NoDate THEN <<>>
        ELSE IF \E i \in 1..Len(cells) : _parse_amt(cells[i]) > 0 THEN <<>>
        ELSE IF chars < 3 \/ _should_skip_row(<<Text(text)>>) THEN <<>>
        ELSE text

\* the loop body of _extract_rows with `=` for `+=` on the description
RowStepOverwrite(txns, row, col_map, ignored) ==
    IF _is_title_row(row) \/ _is_header_row_repeat(row) \/ _should_skip_row(row)
    THEN txns
    ELSE IF _parse_row(row, col_map, ignored) # NoTxn
    THEN Append(txns, _parse_row(row, col_map, ignored))
    ELSE IF txns # <<>> /\ _get_continuation(row, ignored) # <<>>
    THEN [txns EXCEPT ![Len(txns)].desc = _get_continuation(row, ignored)]
    ELSE txns

\* _extract_rows, one row: the list of transactions after `row`
RowStep(txns, row, col_map, ignored) ==
    IF _is_title_row(row) \/ _is_header_row_repeat(row) \/ _should_skip_row(row)
    THEN txns
    ELSE LET txn == _parse_row(row, col_map, ignored) IN
         IF txn # NoTxn THEN Append(txns, txn)
         ELSE IF txns # <<>>
         THEN LET cont == _get_continuation(row, ignored)
                  n    == Len(txns)
              IN  IF cont # <<>>
                  THEN [txns EXCEPT ![n].desc = Strip(JoinSp(txns[n].desc, cont))]
                  ELSE txns
         ELSE txns

RECURSIVE RowsFold(_, _, _, _)
RowsFold(txns, rows, col_map, ignored) ==
    IF rows = <<>> THEN txns
    ELSE RowsFold(RowStep(txns, Head(rows), col_map, ignored),
                  Tail(rows), col_map, ignored)

\* page[start:]
From(page, start) == SubSeq(page, start + 1, Len(page))

\* a row extraction that starts below the header row index on every page
RECURSIVE ExtractFromBelowOnEveryPage(_, _, _, _, _, _)
ExtractFromBelowOnEveryPage(txns, pages, pg_idx, col_map, hdr_row, hdr_page) ==
    IF pg_idx >= Len(pages) THEN txns
    ELSE LET data_rows == From(pages[pg_idx + 1], hdr_row + 1)
         IN  ExtractFromBelowOnEveryPage(
                 RowsFold(txns, data_rows, col_map, Ignored(col_map)),
                 pages, pg_idx + 1, col_map, hdr_row, hdr_page)

\* _extract_rows(pages, col_map, hdr_row, hdr_page)
RECURSIVE ExtractFrom(_, _, _, _, _, _)
ExtractFrom(txns, pages, pg_idx, col_map, hdr_row, hdr_page) ==
    IF pg_idx >= Len(pages) THEN txns
    ELSE LET start == IF pg_idx = hdr_page THEN hdr_row + 1 ELSE 0
             data_rows == From(pages[pg_idx + 1], start)
         IN  ExtractFrom(RowsFold(txns, data_rows, col_map, Ignored(col_map)),
                         pages, pg_idx + 1, col_map, hdr_row, hdr_page)

_extract_rows(pages, col_map, hdr_row, hdr_page) ==
    ExtractFrom(<<>>, pages, 0, col_map, hdr_row, hdr_page)

\* ---------------------------------------------------------- column detection
EmptyMap == [r \in {} |-> 0]

\* cmap.setdefault(role, idx), and `if role not in cmap: cmap[role] = idx`
SetDefault(cmap, role, idx) == cmap @@ (role :> idx)

\* _COL_KEYWORDS, in dict order, the keywords of the vocabulary
_COL_KEYWORDS ==
    << [role |-> "date",        kws |-> << <<"date">>, <<"txn", " ", "date">>,
                                           <<"value", " ", "date">> >>],
       [role |-> "description", kws |-> << <<"description">>, <<"narration">>,
                                           <<"particulars">>, <<"details">> >>],
       [role |-> "debit",       kws |-> << <<"debit">>, <<"withdrawal">>, <<"dr">> >>],
       [role |-> "credit",      kws |-> << <<"credit">>, <<"deposit">>, <<"cr">> >>],
       [role |-> "balance",     kws |-> << <<"balance">>,
                                           <<"closing", " ", "balance">>, <<"bal">> >>],
       [role |-> "amount",      kws |-> << <<"amount">>, <<"amt">> >>],
       [role |-> "reference",   kws |-> << <<"chq">>, <<"ref", " ", "no">>,
                                           <<"reference">> >>] >>

\* the index headings _match_header knows ('#', 'sr', 'sno', ...)
INDEX_HEADINGS == { <<"#">>, <<"sr">>, <<"sno">>, <<"no">>, <<"item">> }

\* the score of a normalised cell against one keyword, 0 for no match
KwScore(norm, kw) ==
    IF norm = kw THEN 200
    ELSE IF Len(norm) >= Len(kw) /\ SubSeq(norm, 1, Len(kw)) = kw
    THEN 100 + TextLen(kw)
    ELSE IF Contains(norm, kw) THEN 50 + TextLen(kw)
    ELSE 0

\* the best score of a role for a normalised cell
RoleScore(norm, k) ==
    LET kws == _COL_KEYWORDS[k].kws
        S   == {KwScore(norm, kws[j]) : j \in 1..Len(kws)}
    IN  CHOOSE m \in S : \A x \in S : x <= m

\* best_role of a cell: the first role, in dict order, of the highest score;
\* "" when nothing matches
BestRole(c) ==
    LET norm == LowerAll(CollapseStrip(CellText(c)))
        n    == Len(_COL_KEYWORDS)
        sc   == [k \in 1..n |-> RoleScore(norm, k)]
        best == CHOOSE m \in {sc[k] : k \in 1..n} : \A k \in 1..n : sc[k] <= m
    IN  IF c.k = "amt" /\ c.s = "DR" THEN "debit"
        ELSE IF c.k = "amt" /\ c.s \in {"CR", "Cr", "Cr."} THEN "credit"
        ELSE IF c.k # "text" \/ best = 0 THEN ""
        ELSE _COL_KEYWORDS[CHOOSE k \in 1..n :
                 /\ sc[k] = best
                 /\ \A j \in 1..(k - 1) : sc[j] < best].role

\* _match_header(row)
RECURSIVE MatchFrom(_, _, _)
MatchFrom(row, idx, cmap) ==
    IF idx >= Len(row) THEN cmap
    ELSE LET c == row[idx + 1]
             best_role == BestRole(c)
         IN
         IF IsBlank(c) THEN MatchFrom(row, idx + 1, cmap)
         ELSE IF c.k = "text" /\ LowerAll(CellText(c)) \in INDEX_HEADINGS
         THEN MatchFrom(row, idx + 1, SetDefault(cmap, "_index", idx))
         ELSE IF best_role # ""
         THEN MatchFrom(row, idx + 1, SetDefault(cmap, best_role, idx))
         ELSE MatchFrom(row, idx + 1, cmap)

_match_header(row) == IF Len(row) < 3 THEN EmptyMap ELSE MatchFrom(row, 0, EmptyMap)

\* _valid_map(cmap)
_valid_map(cmap) ==
    /\ "date" \in DOMAIN cmap
    /\ DOMAIN cmap \cap {"debit", "credit", "amount"} # {}

\* _merge_rows(a, b)
_merge_rows(a, b) ==
    [i \in 1..Max(Len(a), Len(b)) |->
        LET ta == IF i <= Len(a) THEN CellText(a[i]) ELSE <<>>
            tb == IF i <= Len(b) THEN CellText(b[i]) ELSE <<>>
        IN  IF Strip(JoinSp(ta, tb)) = <<>> THEN Empty
            ELSE IF tb = <<>> THEN a[i]
            ELSE IF ta = <<>> THEN b[i]
            ELSE Text(JoinSp(ta, tb))]

\* all rows of all pages, with page and row index (0-based), in order
RECURSIVE Located(_, _)
Located(pages, pg_idx) ==
    IF pg_idx >= Len(pages) THEN <<>>
    ELSE [i \in 1..Len(pages[pg_idx + 1]) |->
             [pg |-> pg_idx, ri |-> i - 1, row |-> pages[pg_idx + 1][i]]]
         \o Located(pages, pg_idx + 1)

\* most rows sampled by _infer_columns
SAMPLE_ROWS == 40

\* re.match(r'^[\d\-]+$', v.strip()): digits and '-' only
IsIndexText(v) ==
    \/ v.k \in {"idx", "dash"}
    \/ (v.k = "date" /\ v.s \in {"d-m-Y", "iso"})

\* a vote whose thresholds are met by the share itself (60% for the index)
VoteColumnInclusive(acc, sample, ci) ==
    LET vals  == [i \in 1..Len(sample) |-> sample[i][ci + 1]]
        n     == Len(sample)
        Count(P(_)) == Cardinality({i \in 1..n : P(vals[i])})
        dates == Count(LAMBDA v : _try_date(v) # NoDate)
        nums  == Count(LAMBDA v : _is_num(v))
        texts == Count(LAMBDA v : CellLen(v) > 8 /\ ~_is_num(v) /\ _try_date(v) = NoDate)
        idxs  == Count(IsIndexText)
        cmap  == acc[1]
    IN  IF 10 * idxs >= 6 * n THEN <<SetDefault(cmap, "_index", ci), acc[2]>>
        ELSE IF 10 * dates >= 4 * n /\ "date" \notin DOMAIN cmap
        THEN <<SetDefault(cmap, "date", ci), acc[2]>>
        ELSE IF 10 * texts >= 4 * n /\ "description" \notin DOMAIN cmap
        THEN <<SetDefault(cmap, "description", ci), acc[2]>>
        ELSE IF 10 * nums >= 3 * n THEN <<cmap, Append(acc[2], ci)>>
        ELSE acc

\* _infer_columns, one column: what the vote does to <<cmap, num_cols>>
VoteColumn(acc, sample, ci) ==
    LET vals  == [i \in 1..Len(sample) |-> sample[i][ci + 1]]
        n     == Len(sample)
        Count(P(_)) == Cardinality({i \in 1..n : P(vals[i])})
        dates == Count(LAMBDA v : _try_date(v) # NoDate)
        nums  == Count(LAMBDA v : _is_num(v))
        texts == Count(LAMBDA v : CellLen(v) > 8 /\ ~_is_num(v) /\ _try_date(v) = NoDate)
        idxs  == Count(IsIndexText)
        cmap  == acc[1]
    IN  IF 10 * idxs > 6 * n THEN <<SetDefault(cmap, "_index", ci), acc[2]>>
        ELSE IF 10 * dates > 4 * n /\ "date" \notin DOMAIN cmap
        THEN <<SetDefault(cmap, "date", ci), acc[2]>>
        ELSE IF 10 * texts > 4 * n /\ "description" \notin DOMAIN cmap
        THEN <<SetDefault(cmap, "description", ci), acc[2]>>
        ELSE IF 10 * nums > 3 * n THEN <<cmap, Append(acc[2], ci)>>
        ELSE acc

RECURSIVE VoteFrom(_, _, _, _)
VoteFrom(acc, sample, ci, target) ==
    IF ci >= target THEN acc
    ELSE VoteFrom(VoteColumn(acc, sample, ci), sample, ci + 1, target)

\* the roles of the first three numeric columns
RECURSIVE NumRoles(_, _, _)
NumRoles(cmap, num_cols, i) ==
    IF i > Len(num_cols) \/ i > 3 THEN cmap
    ELSE NumRoles(SetDefault(cmap, <<"debit", "credit", "balance">>[i], num_cols[i]),
                  num_cols, i + 1)

\* _infer_columns(pages): <<cmap, hdr_row, hdr_page>>
_infer_columns(pages) ==
    LET all_rows == Located(pages, 0)
        width(k) == Cardinality({i \in 1..Len(all_rows) : Len(all_rows[i].row) = k})
        \* Counter.most_common(1): the most frequent width, the first seen on a tie
        first    == CHOOSE i \in 1..Len(all_rows) :
                        /\ \A j \in 1..Len(all_rows) :
                              width(Len(all_rows[j].row)) <= width(Len(all_rows[i].row))
                        /\ \A j \in 1..(i - 1) :
                              width(Len(all_rows[j].row)) < width(Len(all_rows[i].row))
        target   == Len(all_rows[first].row)
        ofWidth  == SelectSeq(all_rows, LAMBDA r : Len(r.row) = target)
        sampleL  == SubSeq(ofWidth, 1, IF Len(ofWidth) < SAMPLE_ROWS
                                       THEN Len(ofWidth) ELSE SAMPLE_ROWS)
        sample   == [i \in 1..Len(sampleL) |-> sampleL[i].row]
        voted    == VoteFrom(<<EmptyMap, <<>> >>, sample, 0, target)
        cmap     == NumRoles(voted[1], voted[2], 1)
        dated    == IF pages # <<>> /\ "date" \in DOMAIN cmap
                    THEN {ri \in 0..(Len(pages[1]) - 1) :
                             /\ cmap["date"] < Len(pages[1][ri + 1])
                             /\ _try_date(pages[1][ri + 1][cmap["date"] + 1]) # NoDate}
                    ELSE {}
        hdr      == IF dated = {} THEN 0
                    ELSE Max(0, (CHOOSE ri \in dated : \A x \in dated : ri <= x) - 1)
    IN  IF Len(all_rows) < 3 THEN <<EmptyMap, 0, 0>>
        ELSE IF Len(sample) < 3 THEN <<EmptyMap, 0, 0>>
        ELSE <<cmap, hdr, 0>>

\* a column resolution that tries the merged row pairs before the single rows
_detect_columns_pairs_first(pages) ==
    LET all_rows == Located(pages, 0)
        single == SelectSeq(all_rows, LAMBDA r :
                      /\ ~_is_title_row(r.row)
                      /\ _valid_map(_match_header(r.row)))
        Merged(r) == _merge_rows(r.row, pages[r.pg + 1][r.ri + 2])
        pairs  == SelectSeq(all_rows, LAMBDA r :
                      /\ r.ri + 1 < Len(pages[r.pg + 1])
                      /\ _valid_map(_match_header(Merged(r))))
    IN  IF pairs # <<>>
        THEN <<_match_header(Merged(pairs[1])), pairs[1].ri + 1, pairs[1].pg>>
        ELSE IF single # <<>>
        THEN <<_match_header(single[1].row), single[1].ri, single[1].pg>>
        ELSE _infer_columns(pages)

\* _detect_columns(pages): <<col_map, hdr_row, hdr_page>>; `cmap and
\* _valid_map(cmap)` is _valid_map(cmap), an empty map having no date
_detect_columns(pages) ==
    LET all_rows == Located(pages, 0)
        single == SelectSeq(all_rows, LAMBDA r :
                      /\ ~_is_title_row(r.row)
                      /\ _valid_map(_match_header(r.row)))
        Merged(r) == _merge_rows(r.row, pages[r.pg + 1][r.ri + 2])
        pairs  == SelectSeq(all_rows, LAMBDA r :
                      /\ r.ri + 1 < Len(pages[r.pg + 1])
                      /\ _valid_map(_match_header(Merged(r))))
    IN  IF single # <<>>
        THEN <<_match_header(single[1].row), single[1].ri, single[1].pg>>
        ELSE IF pairs # <<>>
        THEN <<_match_header(Merged(pairs[1])), pairs[1].ri + 1, pairs[1].pg>>
        ELSE _infer_columns(pages)

\* ------------------------------------------------------------ page extraction
STRATEGIES == <<"table", "table_relaxed", "words", "lines">>

\* _good_rows(rows)
_good_rows(rows) ==
    Cardinality({i \in 1..Len(rows) :
        Cardinality({j \in 1..Len(rows[i]) : ~IsBlank(rows[i][j])}) >= 3})

\* a strategy that returns the rows it had when the exception came
TryStrategyPartial(page, name) == IF page.bad THEN <<>> ELSE page.out[name]

\* _try_table, _try_table_relaxed, _try_words, _try_lines: page.out[name] are
\* the rows the strategy makes of the page; a call that raises inside (the
\* page cannot be read, or the strategy is in page.raising) returns []
TryStrategy(page, name) ==
    IF page.bad \/ name \in page.raising THEN <<>> ELSE page.out[name]

\* _extract_page(page, preferred): <<rows, name>>, name "" for None
_extract_page(page, preferred) ==
    LET Good(name) == /\ TryStrategy(page, name) # <<>>
                      /\ _good_rows(TryStrategy(page, name)) >= 1
        hits == SelectSeq(STRATEGIES, Good)
    IN  IF preferred # "" /\ Good(preferred)
        THEN <<TryStrategy(page, preferred), preferred>>
        ELSE IF hits # <<>> THEN <<TryStrategy(page, hits[1]), hits[1]>>
        ELSE << <<>>, "" >>

\* _extract_page that calls every strategy, whatever the ones before it gave
AttemptsAll(page, preferred) ==
    (IF preferred # "" THEN <<preferred>> ELSE <<>>) \o STRATEGIES

\* _extract_page(page, preferred): the strategies it calls, in the order of
\* the calls
Attempts(page, preferred) ==
    LET Good(name) == /\ TryStrategy(page, name) # <<>>
                      /\ _good_rows(TryStrategy(page, name)) >= 1
        Scan[i \in 0..Len(STRATEGIES)] ==
            IF i = 0 THEN <<>>
            ELSE IF Scan[i - 1] # <<>> /\ Good(Scan[i - 1][Len(Scan[i - 1])])
            THEN Scan[i - 1]
            ELSE Append(Scan[i - 1], STRATEGIES[i])
    IN  IF preferred # "" /\ Good(preferred) THEN <<preferred>>
        ELSE (IF preferred # "" THEN <<preferred>> ELSE <<>>) \o Scan[Len(STRATEGIES)]

\* _build_recovered_row(pending, re_amount)
_build_recovered_row(pending) ==
    LET amounts    == pending.amts
        n          == Len(amounts)
        balance    == IF n >= 1 THEN Amt(amounts[n], "") ELSE Empty
        withdrawal == IF n >= 2 THEN Amt(amounts[n - 1], "") ELSE Empty
        desc_part  == Strip(pending.w)
    IN  <<Idx(pending.idx), pending.date,
          IF desc_part = <<>> THEN Empty ELSE Text(desc_part),
          pending.ref, withdrawal, Empty, balance>>

NoPending == [idx |-> -1, date |-> NoDate, w |-> <<>>, ref |-> Empty, amts |-> <<>>]

\* pending['rest'] = pending['rest'] + ' ' + line
AppendRest(p, line) ==
    IF p.amts = <<>>
    THEN [p EXCEPT !.w = JoinSp(IF p.ref # Empty
                                THEN JoinSp(p.w, CellText(p.ref)) ELSE p.w,
                                line.w),
                   !.ref = line.ref,
                   !.amts = line.amts]
    ELSE [p EXCEPT !.amts = p.amts \o line.amts]

\* _recover_footer_rows_from_text(text, seen_indices); a line of the text is
\* "txn" (index, date, rest), "more" (any other text) or "noise" (blank, page
\* number, statement heading)
RECURSIVE RecoverFrom(_, _, _, _)
RecoverFrom(lines, seen, pending, recovered) ==
    LET flushed == IF pending # NoPending
                   THEN Append(recovered, _build_recovered_row(pending))
                   ELSE recovered
    IN  IF lines = <<>> THEN flushed
        ELSE LET line == Head(lines) IN
             IF line.k = "noise" THEN RecoverFrom(Tail(lines), seen, pending, recovered)
             ELSE IF line.k = "txn"
             THEN IF line.idx \notin seen
                  THEN RecoverFrom(Tail(lines), seen,
                           [idx |-> line.idx, date |-> line.date, w |-> line.w,
                            ref |-> line.ref, amts |-> line.amts],
                           flushed)
                  ELSE RecoverFrom(Tail(lines), seen, NoPending, flushed)
             ELSE IF pending # NoPending
             THEN RecoverFrom(Tail(lines), seen, AppendRest(pending, line), recovered)
             ELSE RecoverFrom(Tail(lines), seen, pending, recovered)

_recover_footer_rows_from_text(text, seen_indices) ==
    RecoverFrom(text, seen_indices, NoPending, <<>>)

\* str(row[0]).strip().isdigit()
FirstIsDigit(row) == row # <<>> /\ row[1].k \in {"idx", "sup"}

\* int(idx) raises on a digit that is not decimal
IntRaises(row) == row # <<>> /\ row[1].k = "sup"

\* key=lambda r: int(r[0]) if r and str(r[0]).strip().isdigit() else 0
SortKey(r) == IF FirstIsDigit(r) THEN r[1].n ELSE 0

\* list.sort(key=SortKey): stable
RECURSIVE Insert(_, _)
Insert(sorted, r) ==
    IF sorted = <<>> THEN <<r>>
    ELSE IF SortKey(sorted[Len(sorted)]) <= SortKey(r) THEN Append(sorted, r)
    ELSE Append(Insert(SubSeq(sorted, 1, Len(sorted) - 1), r), sorted[Len(sorted)])

RECURSIVE SortByIndex(_)
SortByIndex(rows) ==
    IF rows = <<>> THEN <<>>
    ELSE Insert(SortByIndex(SubSeq(rows, 1, Len(rows) - 1)), rows[Len(rows)])

\* the indices a list of rows adds to seen_indices
IndicesOf(rows) == {rows[i][1].n : i \in {j \in 1..Len(rows) : FirstIsDigit(rows[j])}}

\* the page's list after the recovered rows are merged into it
MergeFooter(rows, extra) == SortByIndex(rows \o extra)

\* _extract_pdf, one turn of the page loop.  raises: the turn ends in an
\* exception (int() fails on a first cell).  A page that cannot be read has
\* the text '' and no rows: every extraction call on it is guarded.
PageTurn(page, pages_so_far, best, seen) ==
    LET page_text == IF page.bad THEN <<>> ELSE page.text
        got      == _extract_page(page, best)
        rows     == got[1]
        seen1    == seen \cup IndicesOf(rows)
        extra    == _recover_footer_rows_from_text(page_text, seen1)
        merged   == IF extra # <<>> THEN MergeFooter(rows, extra) ELSE rows
    IN  IF rows = <<>>
        THEN [raises |-> FALSE, pages |-> pages_so_far, best |-> best, seen |-> seen]
        ELSE IF \E i \in 1..Len(rows) : IntRaises(rows[i])
        THEN [raises |-> TRUE, pages |-> Append(pages_so_far, rows),
              best |-> IF best = "" THEN got[2] ELSE best,
              seen |-> seen \cup IndicesOf(SubSeq(rows, 1,
                         (CHOOSE i \in 1..Len(rows) :
                             /\ IntRaises(rows[i])
                             /\ \A j \in 1..(i - 1) : ~IntRaises(rows[j])) - 1))]
        ELSE [raises |-> FALSE, pages |-> Append(pages_so_far, merged),
              best |-> IF best = "" THEN got[2] ELSE best,
              seen |-> seen1 \cup IndicesOf(extra)]

\* ------------------------------------------------------------ bank detection
_CANARA_KEYWORDS == {"canara bank", "cnrb", "canara aspire", "canara savings", "canarabank"}

_KOTAK_KEYWORDS == {"kotak", "kotak mahindra", "811"}

\* text_low = text.lower(): doc.kw are the words of the heading of the first
\* page as printed
TextLow(d) == {Lower(p) : p \in d.kw}

\* a detection that looks for the Kotak keywords first
_detect_bank_kotak_first(d) ==
    IF ~d.openable \/ d.fault = "detect" THEN "generic"
    ELSE IF d.pages = <<>> THEN "generic"
    ELSE IF d.pages[1].bad THEN "generic"
    ELSE IF TextLow(d) \cap _KOTAK_KEYWORDS # {} THEN "kotak"
    ELSE IF TextLow(d) \cap _CANARA_KEYWORDS # {} THEN "canara"
    ELSE "generic"

\* _detect_bank(pdf_path): a document that cannot be opened or whose first
\* page cannot be read gives 'generic'
_detect_bank(d) ==
    IF ~d.openable \/ d.fault = "detect" THEN "generic"
    ELSE IF d.pages = <<>> THEN "generic"
    ELSE IF d.pages[1].bad THEN "generic"
    ELSE IF TextLow(d) \cap _CANARA_KEYWORDS # {} THEN "canara"
    ELSE IF TextLow(d) \cap _KOTAK_KEYWORDS # {} THEN "kotak"
    ELSE "generic"

\* ------------------------------------------------------------ Canara parser
\* _extract_opening_balance_from_pdf: the first figure > 0 stated on the first
\* two pages (page.stated is the figure its text states, None for no match)
_extract_opening_balance_from_pdf(d) ==
    LET first2 == SubSeq(d.pages, 1, IF Len(d.pages) < 2 THEN Len(d.pages) ELSE 2)
        hits   == SelectSeq(first2, LAMBDA pg : pg.stated # None /\ pg.stated > 0)
    IN  IF ~d.openable \/ hits = <<>> THEN None
        ELSE IF \E i \in 1..Len(first2) :
                    first2[i].bad /\ \A j \in 1..(i - 1) : ~(first2[j].stated # None
                                                       /\ first2[j].stated > 0)
        THEN None
        ELSE hits[1].stated

\* a reading of the anchor line that takes the sign of the last token
_canara_parse_txn_line_last_sign(line) ==
    LET nums == line.nums
        n    == Len(nums)
        amt  == Abs(nums[n - 1])
        bal  == Abs(nums[n])
    IN  IF line.k # "txn" THEN NoTxn
        ELSE IF n < 2 THEN NoTxn
        ELSE IF amt = 0 THEN NoTxn
        ELSE IF _try_date(line.date) = NoDate THEN NoTxn
        ELSE [date |-> _try_date(line.date), desc |-> <<>>, amount |-> amt,
              balance |-> bal, type |-> IF nums[n] < 0 THEN "CR" ELSE "DR",
              category |-> "", ob |-> Absent]

\* _canara_parse_txn_line(line): an anchor line carries its date and the
\* signed amount tokens of its remainder (a negative number is a token with
\* an explicit minus)
_canara_parse_txn_line(line) ==
    LET nums == line.nums
        n    == Len(nums)
        amt  == Abs(nums[n - 1])
        bal  == Abs(nums[n])
    IN  IF line.k # "txn" THEN NoTxn
        ELSE IF n < 2 THEN NoTxn
        ELSE IF amt = 0 THEN NoTxn
        ELSE IF _try_date(line.date) = NoDate THEN NoTxn
        ELSE [date |-> _try_date(line.date), desc |-> <<>>, amount |-> amt,
              balance |-> bal, type |-> IF nums[n - 1] < 0 THEN "CR" ELSE "DR",
              category |-> "", ob |-> Absent]

\* _canara_clean_desc(desc)
_canara_clean_desc(desc) == CollapseStrip(RemoveChqSuffix(RemoveValueDate(desc)))

\* the line loop of one page: <<raw_txns, narration_buf>>
RECURSIVE CanaraLines(_, _, _)
CanaraLines(lines, raw_txns, buf) ==
    IF lines = <<>> THEN raw_txns
    ELSE LET line == Head(lines)
             txn  == _canara_parse_txn_line(line)
         IN  IF line.k \in {"blank", "skip"} THEN CanaraLines(Tail(lines), raw_txns, buf)
             ELSE IF txn # NoTxn
             THEN CanaraLines(Tail(lines),
                      Append(raw_txns,
                             [txn EXCEPT !.desc = _canara_clean_desc(JoinAll(buf))]),
                      <<>>)
             ELSE IF line.k = "chq" THEN CanaraLines(Tail(lines), raw_txns, buf)
             ELSE CanaraLines(Tail(lines), raw_txns, Append(buf, line.w))

\* the page loop of _parse_canara: an exception ends it and keeps what was
\* parsed so far
RECURSIVE CanaraPages(_, _)
CanaraPages(pages, raw_txns) ==
    IF pages = <<>> THEN raw_txns
    ELSE IF Head(pages).bad THEN raw_txns
    ELSE CanaraPages(Tail(pages), CanaraLines(Head(pages).lines, raw_txns, <<>>))

CanaraRaw(d) == IF ~d.openable THEN <<>> ELSE CanaraPages(d.pages, <<>>)

\* an override that fills in a missing opening balance only
CanaraOverrideIfNone(result, pdf_opening_bal) ==
    IF result # <<>> /\ pdf_opening_bal # None /\ result[1].ob = None
    THEN [result EXCEPT ![1].ob = pdf_opening_bal]
    ELSE result

\* the override of the inferred opening balance by the stated one
CanaraOverride(result, pdf_opening_bal) ==
    IF result # <<>> /\ pdf_opening_bal # None
    THEN [result EXCEPT ![1].ob = pdf_opening_bal]
    ELSE result

\* ------------------------------------------------------------------ dates
\* _normalize_date_str: the first pattern that matches and parses with a year
\* in [2000, 2035] gives '%Y-%m-%d'; anything else is returned unchanged.
_normalize_date_str(d) ==
    IF d.k = "date" /\ YearOf(d) >= 2000 /\ YearOf(d) <= 2035
    THEN [d EXCEPT !.s = "iso"]
    ELSE d

\* _categorize: the first category, in table order, one of whose keywords
\* occurs in the lower-cased description (the keywords of the vocabulary).
_categorize(desc) ==
    LET lower == LowerAll(desc) IN
    IF Contains(lower, <<"atm">>) THEN "ATM/Cash"
    ELSE IF Contains(lower, <<"salary">>) THEN "Salary"
    ELSE "Other"

\* ---------------------------------------------------------------- _normalize
\* round(x / q) as Python rounds (ties to even), on exact decimals
RoundHalfEven(x, q) ==
    LET f == x \div q
        r == x % q
    IN  IF 2 * r < q THEN f
        ELSE IF 2 * r > q THEN f + 1
        ELSE IF f % 2 = 0 THEN f ELSE f + 1

\* Step 1 without the assignments to first['type']
OpeningBalanceKeepType(first) ==
    LET b0   == first.balance
        amt0 == first.amount
    IN  IF b0 # None /\ amt0 # 0
        THEN IF 100 * Abs(b0 - amt0) <= Max(10000, amt0)
             THEN [ob |-> 0, type |-> first.type]
             ELSE IF b0 - amt0 >= 0
             THEN [ob |-> b0 - amt0, type |-> first.type]
             ELSE [ob |-> b0 + amt0, type |-> first.type]
        ELSE [ob |-> None, type |-> first.type]

\* Step 1: the opening balance inferred from the first transaction, and the
\* type the first transaction gets.
OpeningBalance(first) ==
    LET b0   == first.balance
        amt0 == first.amount
    IN  IF b0 # None /\ amt0 # 0
        THEN LET implied_cr == b0 - amt0
                 implied_dr == b0 + amt0
             IN  IF 100 * Abs(b0 - amt0) <= Max(10000, amt0)
                 THEN [ob |-> 0, type |-> "CR"]
                 ELSE IF implied_cr >= 0
                 THEN [ob |-> implied_cr, type |-> "CR"]
                 ELSE IF implied_dr >= 0
                 THEN [ob |-> implied_dr, type |-> "DR"]
                 ELSE [ob |-> None, type |-> first.type]
        ELSE [ob |-> None, type |-> first.type]

\* tol = max(1.0, round(amt * 0.01, 2))
Tol(amt) == Max(100, RoundHalfEven(amt, 100))

\* Step 2, one transaction: the type chosen from the balance difference.
DiffType(diff, amt, typ) ==
    IF Abs(diff - amt) <= Tol(amt) THEN "CR"
    ELSE IF Abs(diff + amt) <= Tol(amt) THEN "DR"
    ELSE typ

\* Step 2: the loop over range(1, len(txns)); only `type` is written, and the
\* test reads balances and amounts, so each index is decided on its own.
FixTypes(txns) ==
    [i \in 1..Len(txns) |->
        IF i = 1 THEN txns[i]
        ELSE LET curr == txns[i]
                 prev == txns[i - 1]
             IN  IF curr.balance # None /\ prev.balance # None /\ curr.amount # 0
                 THEN [curr EXCEPT !.type =
                          DiffType(curr.balance - prev.balance, curr.amount, curr.type)]
                 ELSE curr]

\* Step 3: the key two duplicates share.
DedupKey(t) ==
    <<_normalize_date_str(t.date), t.amount, t.type, Strip(t.desc), t.balance>>

\* Step 3: what is written into a transaction that is kept.
Finish(t) ==
    LET desc == CollapseStrip(t.desc) IN
    [t EXCEPT !.date = _normalize_date_str(t.date),
              !.desc = desc,
              !.category = _categorize(desc)]

\* Step 3: the indices (1-based) of the transactions that are kept.
RECURSIVE KeptFrom(_, _, _, _)
KeptFrom(txns, i, seen, kept) ==
    IF i > Len(txns) THEN kept
    ELSE LET key == DedupKey(txns[i]) IN
         IF key \in seen
         THEN KeptFrom(txns, i + 1, seen, kept)
         ELSE KeptFrom(txns, i + 1, seen \cup {key}, Append(kept, i))

Kept(txns) == KeptFrom(txns, 1, {}, <<>>)

\* Step 4 without the setdefault of its elif branch
AttachOpeningIfKnown(t, opening_balance) ==
    IF opening_balance # None THEN [t EXCEPT !.ob = opening_balance] ELSE t

\* Step 4: the opening_balance the first kept transaction gets.
AttachOpening(t, opening_balance) ==
    IF opening_balance # None
    THEN [t EXCEPT !.ob = opening_balance]
    ELSE [t EXCEPT !.ob = IF t.ob = Absent THEN None ELSE t.ob]

\* _normalize(txns): `list` is the argument list after the call (its dicts are
\* updated in place), `result` the list returned.
_normalize(txns) ==
    IF txns = <<>> THEN [list |-> <<>>, result |-> <<>>]
    ELSE
    LET ob    == OpeningBalance(txns[1])
        s1    == [txns EXCEPT ![1].type = ob.type]
        s2    == FixTypes(s1)
        kept  == Kept(s2)
        keptS == {kept[j] : j \in 1..Len(kept)}
        s3    == [i \in 1..Len(s2) |->
                     IF i \in keptS THEN Finish(s2[i]) ELSE s2[i]]
        s4    == [i \in 1..Len(s3) |->
                     IF i = kept[1] THEN AttachOpening(s3[i], ob.ob) ELSE s3[i]]
    IN  [list |-> s4, result |-> [j \in 1..Len(kept) |-> s4[kept[j]]]]

\* ------------------------------------------------------------------- state
VARIABLES
    doc,            \* the document parse_transactions is called on
    pc,             \* where parse_transactions is
    bank,           \* the profile _detect_bank chose
    handles,        \* the document handles that are open
    pg,             \* _extract_pdf: the number of pages the loop has done
    all_pages,      \* _extract_pdf: the row lists of the pages so far
    best_strategy,  \* _extract_pdf: the strategy of the first page with rows
    seen_indices,   \* _extract_pdf: the row indices seen so far
    tried,          \* the last call of _extract_page: the preferred strategy
                    \* it was given and the strategies it called
    col_map,        \* the column map
    hdr_row,        \* the header row index
    hdr_page,       \* the header page index
    raw,            \* the raw transactions as the segmenter emitted them
    txns,           \* the same list, as _normalize has left its dicts
    ret,            \* what parse_transactions returns
    outcome,        \* "" while running, then "returned" or "raised"
    thrown,         \* an exception was raised somewhere during the call
    caught          \* an exception reached the handler of parse_transactions

vars == <<doc, pc, bank, handles, pg, all_pages, best_strategy, seen_indices,
          tried, col_map, hdr_row, hdr_page, raw, txns, ret, outcome, thrown, caught>>

extractVars == <<pg, all_pages, best_strategy, seen_indices, tried>>
columnVars == <<col_map, hdr_row, hdr_page>>

\* A transaction as a segmenter creates it.
Txn(date, desc, amount, balance, type) ==
    [date |-> date, desc |-> desc, amount |-> amount, balance |-> balance,
     type |-> type, category |-> "", ob |-> Absent]

SeqsUpTo(S, n) == UNION {[1..k -> S] : k \in 0..n}

\* ---------------------------------------------------------------- documents
NoRows == [n \in {"table", "table_relaxed", "words", "lines"} |-> <<>>]

\* a page whose bordered table is `rows` and whose text has the lines `text`
Page(rows, text) ==
    [out |-> [NoRows EXCEPT !["table"] = rows], text |-> text, bad |-> FALSE,
     raising |-> {}, lines |-> <<>>, stated |-> None]

Apr(day) == Date(day, 4, 2025, "d Mon Y")

Hdr7 == <<Text(<<"#">>), Text(<<"Date">>), Text(<<"Narration">>), Text(<<"Chq">>),
          Text(<<"Withdrawal">>), Text(<<"Deposit">>), Text(<<"Balance">>)>>

\* an indexed row of the seven-column layout, a withdrawal
Row7(first, day, w, paise, bal) ==
    <<first, Apr(day), Text(w), Empty, Amt(paise, ""), Empty, Amt(bal, "")>>

\* a wrapped description line of the row above it
Cont7 == <<Empty, Empty, Text(<<"REF", " ", "NOTE">>), Empty, Empty, Empty, Empty>>

\* a line of page text, as _recover_footer_rows_from_text reads it
TxnLine(idx, day, w, amts) ==
    [k |-> "txn", idx |-> idx, date |-> Apr(day), w |-> w, ref |-> Empty, amts |-> amts]
MoreLine(w) ==
    [k |-> "more", idx |-> 0, date |-> NoDate, w |-> w, ref |-> Empty, amts |-> <<>>]

\* header, rows 1 and 2 with a wrapped line between them; the text also holds
\* row 3, which lies below the table
PageFooter ==
    Page(<<Hdr7, Row7(Idx(1), 1, <<"ATM">>, 20000, 100000), Cont7,
           Row7(Idx(2), 2, <<"POS">>, 30000, 70000)>>,
         <<TxnLine(1, 1, <<"ATM">>, <<20000, 100000>>),
           TxnLine(3, 3, <<"FEE">>, <<1000, 69000>>),
           MoreLine(<<"GST">>)>>)

\* the text holds the line of row 3, which lies below the table, twice
PageFooterTwice ==
    Page(<<Hdr7, Row7(Idx(1), 1, <<"ATM">>, 20000, 100000)>>,
         <<TxnLine(1, 1, <<"ATM">>, <<20000, 100000>>),
           TxnLine(3, 3, <<"FEE">>, <<1000, 69000>>),
           TxnLine(3, 3, <<"FEE">>, <<1000, 69000>>),
           MoreLine(<<"GST">>)>>)

\* rows 4 and 5, no header
PagePlain ==
    Page(<<Row7(Idx(4), 4, <<"ATM">>, 20000, 49000),
           Row7(Idx(5), 5, <<"SALARY">>, 9000, 40000)>>, <<>>)

\* a statement that lists the newest row first: rows 9 and 8 in the table,
\* row 7 below it
PageNewestFirst ==
    Page(<<Row7(Idx(9), 9, <<"ATM">>, 20000, 100000),
           Row7(Idx(8), 8, <<"POS">>, 30000, 120000)>>,
         <<TxnLine(7, 7, <<"FEE">>, <<1000, 150000>>)>>)

\* scenario C: between rows 1 and 3 a dated row without debit and credit,
\* and a row that has a balance only
RowNoAmount ==
    <<Idx(2), Apr(2), Text(<<"HOLD">>), Empty, Empty, Empty, Amt(100000, "")>>
RowBalanceOnly == <<Empty, Empty, Empty, Empty, Empty, Empty, Amt(100000, "")>>
PageC ==
    Page(<<Hdr7, Row7(Idx(1), 1, <<"ATM">>, 20000, 100000), RowNoAmount,
           RowBalanceOnly, Row7(Idx(3), 3, <<"POS">>, 30000, 70000)>>, <<>>)

\* a row whose withdrawal cell reads 'nan'
RowNaN == <<Idx(2), Apr(2), Text(<<"FEE">>), Empty, NaNText, Empty, Amt(100000, "")>>
PageNaN == Page(<<Hdr7, Row7(Idx(1), 1, <<"ATM">>, 20000, 100000), RowNaN>>, <<>>)

\* scenario D across a page boundary: the page begins with the wrapped line
\* of the last row of the page before it
PageWrapped ==
    Page(<<Cont7, Row7(Idx(6), 6, <<"POS">>, 30000, 19000)>>, <<>>)

\* a page that cannot be read: every call on it raises
PageBad == [PagePlain EXCEPT !.bad = TRUE]

\* a row whose first cell is a digit int() does not read
PageSup == Page(<<Row7(Sup, 6, <<"ATM">>, 20000, 20000)>>, <<>>)

\* no strategy finds a row
PageEmpty == Page(<<>>, <<>>)

\* only word clustering finds rows
PageWords ==
    [Page(<<>>, <<>>) EXCEPT
        !.out["words"] = <<Row7(Idx(7), 7, <<"ATM">>, 5000, 15000)>>]

\* both table strategies raise on the page, word clustering gives a row
PageTableRaises ==
    [PagePlain EXCEPT !.raising = {"table", "table_relaxed"},
                      !.out["words"] = <<Row7(Idx(7), 7, <<"ATM">>, 5000, 15000)>>]

\* scenario A: date / description / debit / credit / balance
HdrA == <<Text(<<"Date">>), Text(<<"Narration">>), Text(<<"Debit">>),
          Text(<<"Credit">>), Text(<<"Balance">>)>>
RowA1 == <<Apr(1), Text(<<"OPENING", " ", "BALANCE">>), Empty, Empty, Amt(100000, "")>>
RowA2 == <<Apr(2), Text(<<"SALARY", " ", "CREDIT">>), Empty, Amt(500000, ""),
           Amt(600000, "")>>
PageA == Page(<<HdrA, RowA1, RowA2>>, <<>>)

\* no header: a date, a long text, an amount in parentheses
RowP(day, paise) ==
    <<Apr(day), Text(<<"SALARY", " ", "CREDIT">>), Amt(paise, "()")>>
PageParens == Page(<<RowP(1, 50000), RowP(2, 60000), RowP(3, 70000)>>, <<>>)

\* a header wrapped onto two lines, below a title row
TitleRow == <<Text(<<"Account", " ", "Transactions">>), Empty, Empty, Empty, Empty>>
HdrTop == <<Text(<<"Txn">>), Text(<<"Narration">>), Text(<<"Debit">>),
            Text(<<"Credit">>), Text(<<"Closing">>)>>
HdrBottom == <<Text(<<"Date">>), Empty, Empty, Empty, Text(<<"Balance">>)>>
RowA3 == <<Apr(3), Text(<<"ATM">>), Amt(20000, ""), Empty, Amt(580000, "")>>
PageTwoLine == Page(<<TitleRow, HdrTop, HdrBottom, RowA2, RowA3>>, <<>>)

\* a single amount column: the sign of a movement is in the writing of the
\* amount
HdrAmount == <<Text(<<"Date">>), Text(<<"Narration">>), Text(<<"Amount">>)>>
RowAmount(day, c) == <<Apr(day), Text(<<"POS">>), c>>
PageAmount ==
    Page(<<HdrAmount,
           RowAmount(1, Amt(10000, "CR")), RowAmount(2, Amt(20000, "Cr")),
           RowAmount(3, Amt(30000, "Cr.")), RowAmount(4, Amt(40000, "()")),
           RowAmount(5, Amt(50000, "-")), RowAmount(6, Amt(60000, "DR")),
           RowAmount(7, Amt(70000, "")), RowAmount(8, Amt(0, "")),
           RowAmount(9, Text(<<"NIL">>))>>, <<>>)

\* a statement with a withdrawal column and no deposit column
HdrDebit == <<Text(<<"Date">>), Text(<<"Narration">>), Text(<<"Withdrawal">>),
              Text(<<"Balance">>)>>
PageDebitOnly ==
    Page(<<HdrDebit,
           <<Apr(1), Text(<<"ATM">>), Amt(20000, ""), Amt(100000, "")>>,
           <<Apr(2), Text(<<"POS">>), Amt(30000, ""), Amt(70000, "")>> >>, <<>>)

\* a line of page text, as _parse_canara reads it
CanaraTxn(day, nums) ==
    [k |-> "txn", date |-> Date(day, 4, 2025, "d-m-Y"), nums |-> nums, w |-> <<>>]
CanaraText(k, w) == [k |-> k, date |-> NoDate, nums |-> <<>>, w |-> w]

\* an anchor line with its text, which is narration when the line is not
\* read as a transaction
CanaraAnchor(day, nums, w) == [CanaraTxn(day, nums) EXCEPT !.w = w]

\* a Canara ePassbook page (its table is the seven-column one)
PageCanara(stated) ==
    [Page(<<Hdr7, Row7(Idx(1), 1, <<"ATM">>, 20000, 100000),
            Row7(Idx(2), 2, <<"POS">>, 30000, 70000)>>, <<>>) EXCEPT
        !.lines = <<CanaraText("skip", <<"Statement">>),
                    CanaraText("narr", <<"UPI", " ", "PAY">>),
                    CanaraTxn(1, <<-50000, 150000>>),
                    CanaraText("chq", <<"Chq:">>),
                    CanaraText("narr", <<"ATM", " ", "WDL">>),
                    CanaraTxn(2, <<20000, 130000>>),
                    CanaraText("narr", <<"NOTE">>)>>,
        !.stated = stated]

\* a Canara page with anchor lines of three amounts, of one amount and of a
\* zero amount, an overdrawn balance, and narration as its last line
PageCanaraMixed ==
    [Page(<<Hdr7, Row7(Idx(1), 1, <<"ATM">>, 20000, 100000)>>, <<>>) EXCEPT
        !.lines = <<CanaraText("narr", <<"UPI", " ", "PAY">>),
                    CanaraTxn(1, <<5000, -25000, 105000>>),
                    CanaraText("narr", <<"FEE">>),
                    CanaraAnchor(2, <<1000>>, <<"02-04-2025", " ", "FEE", " ", "10.00">>),
                    CanaraAnchor(3, <<0, 105000>>,
                        <<"03-04-2025", " ", "NIL", " ", "0.00", " ", "1,050.00">>),
                    CanaraText("chq", <<"Chq:">>),
                    CanaraTxn(4, <<20000, -85000>>),
                    CanaraText("narr", <<"LAST">>)>>]

Doc(openable, kw, fault, pages) ==
    [openable |-> openable, kw |-> kw, fault |-> fault, pages |-> pages]

NoDoc == Doc(TRUE, {}, "none", <<>>)

FAULTS == {"none", "detect", "columns", "rows", "normalize"}

\* documents that differ in how the call runs: whether the file opens, the
\* words in the heading of the first page, the stage that raises
FlowDocs ==
    {Doc(o, kw, f, p) :
        o \in BOOLEAN, kw \in SUBSET {"CNRB", "Kotak"}, f \in FAULTS,
        p \in {<<PageCanara(None)>>, <<PageCanara(50000)>>,
               <<PageCanara(None), PageCanara(70000)>>,
               <<PageCanara(None), PageBad>>}}

PAGES == {PageFooter, PagePlain, PageNewestFirst, PageC, PageNaN, PageWrapped, PageBad,
          PageSup, PageEmpty, PageWords, PageTableRaises, PageA, PageParens}

\* documents that differ in their pages
PageDocs == {Doc(TRUE, {}, "none", p) : p \in SeqsUpTo(PAGES, MaxPages)}

\* documents that differ in where and how the header is printed
LayoutDocs ==
    {Doc(TRUE, {}, "none", p) :
        p \in {<<PageTwoLine>>, <<PageTwoLine, PageA>>, <<PagePlain, PageTwoLine>>,
               <<PageAmount>>, <<PageFooterTwice>>, <<PageDebitOnly>>}}
    \cup {Doc(TRUE, {"CNRB"}, "none", p) :
              p \in {<<PageCanaraMixed>>, <<PageCanaraMixed, PageCanara(None)>>}}

\* Raw transactions that differ in amount, balance and type.
BalanceTxns ==
    {Txn(Apr(1), <<"A">>, a, b, t) :
        a \in {30, 120000},
        b \in {None, 100, 130, 120150},
        t \in {"DR", "CR"}}

\* Raw transactions that differ in the writing of the date and of the blanks
\* of the description (a continuation row is appended uncollapsed).
DuplicateTxns ==
    {Txn(Date(1, 4, 2025, s), d, 20000, b, t) :
        s \in {"d Mon Y", "d Mon Y1"},
        d \in {<<"A", " ", "B">>, <<"A", "  ", "B">>},
        b \in {100000},
        t \in {"DR", "CR"}}

\* the state at the call of parse_transactions(doc)
AtCall ==
    /\ bank = ""
    /\ handles = {}
    /\ pg = 0
    /\ all_pages = <<>>
    /\ best_strategy = ""
    /\ seen_indices = {}
    /\ tried = [preferred |-> "", calls |-> <<>>]
    /\ col_map = EmptyMap
    /\ hdr_row = 0
    /\ hdr_page = 0
    /\ ret = <<>>
    /\ outcome = ""
    /\ thrown = FALSE
    /\ caught = FALSE

Init ==
    /\ doc \in FlowDocs \cup PageDocs \cup LayoutDocs
    /\ pc = "start"
    /\ raw = <<>>
    /\ txns = <<>>
    /\ AtCall

InitNorm ==
    /\ doc = NoDoc
    /\ pc = "normalize"
    /\ raw \in SeqsUpTo(BalanceTxns, MaxTxns) \cup SeqsUpTo(DuplicateTxns, MaxTxns)
    /\ txns = raw
    /\ AtCall

\* the five values of a column without heading, from the top (a table of
\* three rows has the first three of them)
ColumnValues ==
    LET I(i)  == Idx(i)
        D(i)  == Apr(i)
        Dm(i) == Date(i, 4, 2025, "d-m-Y")
        L     == Text(<<"SALARY", " ", "CREDIT">>)
        S     == Text(<<"ATM">>)
        A(i)  == Amt(1000 * i, "")
    IN  { <<I(1), I(2), I(3), S, S>>,
          <<D(1), D(2), D(3), S, S>>,
          <<D(1), D(2), S, S, S>>,
          <<Dm(1), Dm(2), Dm(3), Dm(4), S>>,
          <<L, L, L, S, S>>,
          <<A(1), A(2), Empty, Empty, Empty>>,
          <<A(1), Empty, Empty, Empty, Empty>> }

\* the tables of MaxCols columns and n rows made of these columns; five rows
\* lie on two pages
HeaderlessPages ==
    {LET rows == [i \in 1..n |-> [c \in 1..MaxCols |-> cols[c][i]]]
     IN  IF n = 5 THEN <<SubSeq(rows, 1, 2), SubSeq(rows, 3, 5)>> ELSE <<rows>> :
        cols \in [1..MaxCols -> ColumnValues], n \in {2, 3, 5}}

\* col_map, hdr_row, hdr_page = _detect_columns(pages) on pages without header
InitInfer ==
    /\ doc = NoDoc
    /\ pc = "columns"
    /\ bank = "generic"
    /\ handles = {}
    /\ pg = 0
    /\ all_pages \in HeaderlessPages
    /\ best_strategy = "table"
    /\ seen_indices = {}
    /\ tried = [preferred |-> "", calls |-> <<>>]
    /\ col_map = EmptyMap
    /\ hdr_row = 0
    /\ hdr_page = 0
    /\ raw = <<>>
    /\ txns = <<>>
    /\ ret = <<>>
    /\ outcome = ""
    /\ thrown = FALSE
    /\ caught = FALSE

\* a handler that lets the exception go on to the caller
OnExceptionReraise == [ret |-> <<>>, outcome |-> "raised"]

\* except Exception: ... return []
OnException == [ret |-> <<>>, outcome |-> "returned"]

\* return []
ReturnEmpty ==
    /\ ret' = <<>>
    /\ outcome' = "returned"
    /\ pc' = "done"

\* bank = _detect_bank(pdf_path)
DetectBankStep ==
    /\ pc = "start"
    /\ bank' = _detect_bank(doc)
    /\ thrown' = (\/ thrown
                  \/ ~doc.openable
                  \/ doc.fault = "detect"
                  \/ (doc.pages # <<>> /\ doc.pages[1].bad))
    /\ pc' = IF bank' = "canara" THEN "canara" ELSE "open"
    /\ UNCHANGED <<doc, handles, extractVars, columnVars, raw, txns, ret, outcome, caught>>

\* transactions = _parse_canara(pdf_path): both handles it opens are closed
\* by their with-blocks; an exception in the page loop is caught there, one
\* in _normalize is not
CanaraStep ==
    /\ pc = "canara"
    /\ LET raw_txns == CanaraRaw(doc)
           r        == _normalize(raw_txns)
           stated   == _extract_opening_balance_from_pdf(doc)
       IN  /\ raw' = raw_txns
           /\ IF doc.fault = "normalize"
              THEN /\ thrown' = TRUE
                   /\ pc' = "except"
                   /\ UNCHANGED <<txns, ret>>
              ELSE /\ thrown' = (thrown \/ \E i \in 1..Len(doc.pages) : doc.pages[i].bad)
                   /\ pc' = "return"
                   /\ ret' = CanaraOverride(r.result, stated)
                   /\ txns' = IF r.result # <<>> /\ stated # None
                              THEN [r.list EXCEPT ![1].ob = stated]
                              ELSE r.list
    /\ UNCHANGED <<doc, bank, handles, extractVars, columnVars, outcome, caught>>

\* _extract_pdf: pdf = pdfplumber.open(pdf_path), [] when that fails
OpenStep ==
    /\ pc = "open"
    /\ IF doc.openable
       THEN /\ handles' = handles \cup {"pdf"}
            /\ pc' = "page"
            /\ UNCHANGED thrown
       ELSE /\ pc' = "columns"
            /\ thrown' = TRUE
            /\ UNCHANGED handles
    /\ UNCHANGED <<doc, bank, extractVars, columnVars, raw, txns, ret, outcome, caught>>

\* _extract_pdf: one turn of `for pg_num, page in enumerate(pdf.pages)`
PageStep ==
    /\ pc = "page"
    /\ pg < Len(doc.pages)
    /\ LET t == PageTurn(doc.pages[pg + 1], all_pages, best_strategy, seen_indices) IN
        /\ all_pages' = t.pages
        /\ best_strategy' = t.best
        /\ seen_indices' = t.seen
        /\ tried' = [preferred |-> best_strategy,
                     calls |-> Attempts(doc.pages[pg + 1], best_strategy)]
        /\ IF t.raises
           THEN pc' = "except" /\ thrown' = TRUE /\ UNCHANGED pg
           ELSE pc' = "page" /\ pg' = pg + 1
                /\ thrown' = (\/ thrown
                              \/ doc.pages[pg + 1].bad
                              \/ \E i \in 1..Len(tried'.calls) :
                                     tried'.calls[i] \in doc.pages[pg + 1].raising)
    /\ UNCHANGED <<doc, bank, handles, columnVars, raw, txns, ret, outcome, caught>>

\* _extract_pdf: pdf.close(); return all_pages
CloseStep ==
    /\ pc = "page"
    /\ pg = Len(doc.pages)
    /\ handles' = handles \ {"pdf"}
    /\ pc' = "columns"
    /\ UNCHANGED <<doc, bank, extractVars, columnVars, raw, txns, ret, outcome,
                   thrown, caught>>

\* if not pages: return []; col_map, hdr_row, hdr_page = _detect_columns(pages);
\* if not col_map: return []
ColumnsStep ==
    /\ pc = "columns"
    /\ IF all_pages = <<>>
       THEN ReturnEmpty /\ UNCHANGED <<columnVars, thrown>>
       ELSE IF doc.fault = "columns"
       THEN /\ pc' = "except"
            /\ thrown' = TRUE
            /\ UNCHANGED <<columnVars, ret, outcome>>
       ELSE LET d == _detect_columns(all_pages) IN
            /\ col_map' = d[1]
            /\ hdr_row' = d[2]
            /\ hdr_page' = d[3]
            /\ UNCHANGED thrown
            /\ IF d[1] = EmptyMap
               THEN ReturnEmpty
               ELSE pc' = "rows" /\ UNCHANGED <<ret, outcome>>
    /\ UNCHANGED <<doc, bank, handles, extractVars, raw, txns, caught>>

\* raw = _extract_rows(pages, col_map, hdr_row, hdr_page); if not raw: return []
RowsStep ==
    /\ pc = "rows"
    /\ IF doc.fault = "rows"
       THEN /\ pc' = "except"
            /\ thrown' = TRUE
            /\ UNCHANGED <<raw, txns, ret, outcome>>
       ELSE LET r == _extract_rows(all_pages, col_map, hdr_row, hdr_page) IN
            /\ raw' = r
            /\ txns' = r
            /\ UNCHANGED thrown
            /\ IF r = <<>>
               THEN ReturnEmpty
               ELSE pc' = "normalize" /\ UNCHANGED <<ret, outcome>>
    /\ UNCHANGED <<doc, bank, handles, extractVars, columnVars, caught>>

\* transactions = _normalize(raw)
NormalizeStep ==
    /\ pc = "normalize"
    /\ IF doc.fault = "normalize"
       THEN /\ pc' = "except"
            /\ thrown' = TRUE
            /\ UNCHANGED <<txns, ret>>
       ELSE LET r == _normalize(raw) IN
            /\ txns' = r.list
            /\ ret' = r.result
            /\ pc' = "return"
            /\ UNCHANGED thrown
    /\ UNCHANGED <<doc, bank, handles, extractVars, columnVars, raw, outcome, caught>>

\* return transactions
ReturnStep ==
    /\ pc = "return"
    /\ pc' = "done"
    /\ outcome' = "returned"
    /\ UNCHANGED <<doc, bank, handles, extractVars, columnVars, raw, txns, ret,
                   thrown, caught>>

\* except Exception as e: ... return []
ExceptStep ==
    /\ pc = "except"
    /\ pc' = "done"
    /\ ret' = OnException.ret
    /\ outcome' = OnException.outcome
    /\ caught' = TRUE
    /\ UNCHANGED <<doc, bank, handles, extractVars, columnVars, raw, txns, thrown>>

Next ==
    \/ DetectBankStep
    \/ CanaraStep
    \/ OpenStep
    \/ PageStep
    \/ CloseStep
    \/ ColumnsStep
    \/ RowsStep
    \/ NormalizeStep
    \/ ReturnStep
    \/ ExceptStep

\* parse_transactions(doc)
Spec == Init /\ [][Next]_vars

NextNorm == NormalizeStep \/ ReturnStep

\* _normalize(raw), and the return of its result
SpecNorm == InitNorm /\ [][NextNorm]_vars

NextInfer == ColumnsStep

\* _detect_columns(pages) on pages without header
SpecInfer == InitInfer /\ [][NextInfer]_vars

\* ------------------------------------------------------------------ claims
Other(t) == IF t = "CR" THEN "DR" ELSE "CR"

\* Transaction i of the raw list is one the balance-diff pass looks at.
DiffCase(i) ==
    /\ i >= 2
    /\ raw[i].balance # None
    /\ raw[i - 1].balance # None
    /\ raw[i].amount # 0

\* |x| <= max(1.0, 1% of a)
WithinPct(x, a) == 100 * Abs(x) <= Max(10000, a)

\* C6: in the balance-diff pass every transaction after the first with both
\* balances set and a non-zero amount has a type of DR or CR, and where the
\* pass selects a type from a diff other than 0, it selects the other type
\* from -diff.
C6_DiffSignSelectsType ==
    pc = "done" =>
        \A i \in 1..Len(raw) : DiffCase(i) =>
            LET d   == raw[i].balance - raw[i - 1].balance
                a   == raw[i].amount
                sel == DiffType(d, a, "")
            IN  /\ txns[i].type \in {"DR", "CR"}
                /\ (sel # "" /\ d # 0) => /\ txns[i].type = sel
                                          /\ DiffType(-d, a, "") = Other(sel)

\* C7: after _normalize a transaction the pass looks at is CR when diff is
\* within max(1.0, 1% of amount) of +amount, DR when it is within that
\* tolerance of -amount, and keeps the segmenter's type otherwise.  Each
\* clause is stated for the sign of diff it is about (a rise for CR, a fall
\* for DR), so that a violation is a rise typed DR or a fall typed CR.
C7_DiffPassAuthoritative ==
    pc = "done" =>
        \A i \in 1..Len(raw) : DiffCase(i) =>
            LET d == raw[i].balance - raw[i - 1].balance
                a == raw[i].amount
            IN  /\ (d > 0 /\ WithinPct(d - a, a)) => txns[i].type = "CR"
                /\ (d < 0 /\ WithinPct(d + a, a)) => txns[i].type = "DR"
                /\ (~WithinPct(d - a, a) /\ ~WithinPct(d + a, a))
                       => txns[i].type = raw[i].type

\* C8: with a balance b and a non-zero amount a on the first record, the
\* opening balance is 0 (type CR) when |b - a| <= max(1.0, 1% of a), else
\* b - a (type CR) when that is >= 0, else b + a (type DR); the type comes
\* from b and a alone and the opening balance is set and >= 0.
C8_OpeningInference ==
    (pc = "done" /\ raw # <<>> /\ raw[1].balance # None /\ raw[1].amount # 0) =>
        LET b == raw[1].balance
            a == raw[1].amount
            f == ret[1]
        IN  /\ f.ob # None /\ f.ob # Absent /\ f.ob >= 0
            /\ WithinPct(b - a, a) => (f.ob = 0 /\ f.type = "CR")
            /\ (~WithinPct(b - a, a) /\ b - a >= 0) => (f.ob = b - a /\ f.type = "CR")
            /\ (~WithinPct(b - a, a) /\ b - a < 0 /\ b + a >= 0)
                   => (f.ob = b + a /\ f.type = "DR")

\* C8 witness: a first record the segmenter typed CR leaves as DR with a
\* positive opening balance.
C8_Witness ==
    /\ pc = "done" /\ raw # <<>>
    /\ raw[1].type = "CR" /\ ret[1].type = "DR" /\ ret[1].ob > 0

\* C10: no two records of the output share the key (normalized date, amount,
\* type, trimmed description, balance), and the output is the input with
\* only the first record of each key kept, in input order.
C10_OutputKeysDistinct ==
    pc = "done" =>
        /\ \A i, j \in 1..Len(ret) : i < j => DedupKey(ret[i]) # DedupKey(ret[j])
        /\ \A i, j \in 1..Len(ret) : i < j =>
               \E m, n \in 1..Len(txns) : m < n /\ txns[m] = ret[i] /\ txns[n] = ret[j]

\* ------------------------------------------------- claims on parse_transactions
\* C1 (as the code has it): parse_transactions never propagates an exception:
\* every call ends by returning a list, and whenever an exception reaches its
\* handler the list returned is empty.
C1_NeverRaises ==
    /\ outcome # "raised"
    /\ pc = "done" => outcome = "returned"
    /\ (pc = "done" /\ caught) => ret = <<>>

C1_Witness == pc = "done" /\ caught /\ thrown /\ outcome = "returned" /\ ret = <<>>

\* C1 (as stated): the call returns, and the list is empty whenever a failure
\* was raised anywhere in detection, extraction, column detection,
\* segmentation or normalization.
C1_EmptyOnAnyFailure ==
    pc = "done" => /\ outcome = "returned"
                   /\ thrown => ret = <<>>

\* C2: by the time parse_transactions returns, every document handle that was
\* opened has been closed, whether extraction ended normally or by an
\* exception.
C2_HandleClosedOnEveryExit == pc = "done" => handles = {}

\* `a` can be had from `b` by leaving elements out
RECURSIVE IsSubseq(_, _)
IsSubseq(a, b) ==
    IF a = <<>> THEN TRUE
    ELSE IF b = <<>> THEN FALSE
    ELSE IF Head(a) = Head(b) THEN IsSubseq(Tail(a), Tail(b))
    ELSE IsSubseq(a, Tail(b))

\* C3: the rows the extraction strategy produced for a page stand, in the
\* order it produced them, in the page's list of rows, also when footer rows
\* were recovered and merged into the page.
C3_RowOrderKept ==
    (pc = "page" /\ pg >= 1 /\ all_pages # <<>>
        /\ _extract_page(doc.pages[pg], best_strategy)[1] # <<>>)
    => IsSubseq(_extract_page(doc.pages[pg], best_strategy)[1],
                all_pages[Len(all_pages)])

\* C4: row segmentation runs with a valid column map only, and a call whose
\* column map is not valid returns an empty result.
C4_SegmentationNeedsValidMap ==
    /\ pc = "rows" => _valid_map(col_map)
    /\ (pc = "done" /\ bank # "canara" /\ ~_valid_map(col_map)) => ret = <<>>

\* the column map of scenario A
ScenarioAMap ==
    [date |-> 0, description |-> 1, debit |-> 2, credit |-> 3, balance |-> 4]

\* the call has ended on the statement of scenario A
ScenarioADone ==
    /\ pc = "done"
    /\ ~caught
    /\ col_map = ScenarioAMap
    /\ all_pages = << <<HdrA, RowA1, RowA2>> >>

\* C5: scenario A yields exactly one transaction, of amount 5000.00, type CR,
\* balance 6000.00 and opening_balance 1000.00.
C5_ScenarioA ==
    ScenarioADone =>
        /\ Len(ret) = 1
        /\ ret[1].amount = 500000
        /\ ret[1].type = "CR"
        /\ ret[1].balance = 600000
        /\ ret[1].ob = 100000

C5_Witness == ScenarioADone /\ Len(raw) = 1 /\ Len(ret) = 1 /\ ret[1].ob = 100000

\* C9: in every non-empty result of parse_transactions, on the table path and
\* on the Canara path, opening_balance is present on the record at index 0
\* and on no other record.
C9_OpeningOnFirstOnly ==
    (pc = "done" /\ ret # <<>>) =>
        /\ ret[1].ob # Absent
        /\ \A i \in 2..Len(ret) : ret[i].ob = Absent

C9_Witness ==
    /\ pc = "done"
    /\ bank = "canara"
    /\ Len(ret) >= 2
    /\ ret[1].ob = 50000
    /\ ret[2].ob = Absent

\* C11: the dedup pass of _normalize, applied to the output of _normalize,
\* keeps every record.
C11_DedupIdempotent ==
    pc = "done" => Len(Kept(ret)) = Len(ret)

\* --------------------------------------------------- claims on _extract_rows
\* the rows _extract_rows goes through, in the order it does
RECURSIVE DataRowsFrom(_)
DataRowsFrom(pg_idx) ==
    IF pg_idx >= Len(all_pages) THEN <<>>
    ELSE From(all_pages[pg_idx + 1], IF pg_idx = hdr_page THEN hdr_row + 1 ELSE 0)
         \o DataRowsFrom(pg_idx + 1)

DataRows == DataRowsFrom(0)

\* the transactions _extract_rows has when it comes to the k-th of these rows
TxnsBefore(k) == RowsFold(<<>>, SubSeq(DataRows, 1, k - 1), col_map, Ignored(col_map))

\* the transactions it has after that row
TxnsAfter(k) == RowStep(TxnsBefore(k), DataRows[k], col_map, Ignored(col_map))

\* the cells of the row outside the index and reference columns
Regarded(row) == CellsAt(row, Cols(row) \ Ignored(col_map))

HasDate(row) == \E i \in 1..Len(Regarded(row)) : Regarded(row)[i].k = "date"

HasAmount(row) == \E i \in 1..Len(Regarded(row)) : _parse_amt(Regarded(row)[i]) > 0

\* the debit and the credit cell of the row are empty or zero
NoDebitNoCredit(row) ==
    /\ _parse_amt(_cell(row, col_map["debit"])) = 0
    /\ _parse_amt(_cell(row, col_map["credit"])) = 0

\* the column map is detected and the rows have been segmented with it
Segmented == pc \in {"normalize", "return", "done"} /\ col_map # EmptyMap /\ ~caught

\* C12: under a map with debit and credit columns a row whose debit and
\* credit are both empty or zero adds no transaction, and when it has a date
\* or a positive amount (its balance) it changes no record at all.
C12_EmptyAmountsRowDropped ==
    (Segmented /\ {"debit", "credit"} \subseteq DOMAIN col_map) =>
        /\ RowsFold(<<>>, DataRows, col_map, Ignored(col_map)) = raw
        /\ \A k \in 1..Len(DataRows) :
            NoDebitNoCredit(DataRows[k]) =>
                /\ Len(TxnsAfter(k)) = Len(TxnsBefore(k))
                /\ (HasDate(DataRows[k]) \/ HasAmount(DataRows[k]))
                       => TxnsAfter(k) = TxnsBefore(k)

\* a dated row without amounts, and a row with a balance only, were met with
\* transactions before them
C12_Witness ==
    /\ Segmented
    /\ {"debit", "credit"} \subseteq DOMAIN col_map
    /\ \E k \in 1..Len(DataRows) :
          DataRows[k] = RowNoAmount /\ TxnsBefore(k) # <<>>
    /\ \E k \in 1..Len(DataRows) :
          DataRows[k] = RowBalanceOnly /\ TxnsBefore(k) # <<>>
    /\ Len(ret) = 2

\* the text of the row: its non-empty cells outside the ignored columns,
\* space-joined
RowText(row) ==
    LET full == SelectSeq(Regarded(row), LAMBDA c : ~IsBlank(c))
    IN  JoinAll([i \in 1..Len(full) |-> CellText(full[i])])

RowTextLen(row) ==
    LET full == SelectSeq(Regarded(row), LAMBDA c : ~IsBlank(c))
    IN  IF full = <<>> THEN 0 ELSE SumCellLen(full) + Len(full) - 1

\* the row is a wrapped description line: it is no title, header-repeat or
\* skip-phrase row, yields no transaction, has neither a date nor a positive
\* amount, and its text has 3 characters or more and no skip phrase
IsContinuation(row) ==
    /\ ~_is_title_row(row) /\ ~_is_header_row_repeat(row) /\ ~_should_skip_row(row)
    /\ _parse_row(row, col_map, Ignored(col_map)) = NoTxn
    /\ ~HasDate(row) /\ ~HasAmount(row)
    /\ RowTextLen(row) >= 3
    /\ ~_should_skip_row(<<Text(RowText(row))>>)

\* C13: a wrapped description line is appended, space-joined, to the desc of
\* the last transaction emitted, on whatever page that was; it adds no
\* transaction and changes nothing else, and it is discarded when no
\* transaction was emitted before it.
C13_ContinuationAppended ==
    Segmented =>
        \A k \in 1..Len(DataRows) : IsContinuation(DataRows[k]) =>
            LET before == TxnsBefore(k)
                n      == Len(before)
            IN  IF before = <<>> THEN TxnsAfter(k) = <<>>
                ELSE TxnsAfter(k) =
                       [before EXCEPT ![n].desc =
                           before[n].desc \o <<" ">> \o RowText(DataRows[k])]

\* the wrapped line is the first row of the second page and the last
\* transaction of the first page has got its text
C13_Witness ==
    /\ Segmented
    /\ Len(all_pages) = 2
    /\ all_pages[2][1] = Cont7
    /\ IsContinuation(Cont7)
    /\ \E i \in 1..Len(raw) : Contains(raw[i].desc, <<" ", "REF", " ", "NOTE">>)
    /\ Len(raw) = Len(all_pages[1]) + Len(all_pages[2]) - 1 - (hdr_row + 1)

\* C14: every record parse_transactions returns has an amount > 0 and the
\* type DR or CR.
C14_PositiveAmountAndType ==
    pc = "done" =>
        \A i \in 1..Len(ret) : ret[i].amount > 0 /\ ret[i].type \in {"DR", "CR"}

\* --------------------------------------------------- claims on _parse_canara
\* the opening-balance figure the text of the first two pages states: the
\* first one that is > 0, None when there is none
StatedFigure ==
    LET n     == IF Len(doc.pages) < 2 THEN Len(doc.pages) ELSE 2
        cands == {i \in 1..n : doc.pages[i].stated # None /\ doc.pages[i].stated > 0}
    IN  IF cands = {} THEN None
        ELSE doc.pages[CHOOSE i \in cands : \A j \in cands : i <= j].stated

\* the opening balance _normalize inferred for the raw transactions
InferredOpening == _normalize(raw).result[1].ob

CanaraDone == pc = "done" /\ bank = "canara" /\ ~caught /\ ret # <<>>

Succeeds(page, name) ==
    /\ ~page.bad
    /\ name \notin page.raising
    /\ page.out[name] # <<>>
    /\ _good_rows(page.out[name]) >= 1

\* the page yields rows
Yields(page) == \E i \in 1..Len(STRATEGIES) : Succeeds(page, STRATEGIES[i])

\* the first strategy, in priority order, that succeeds on a page that yields
FirstSuccess(page) ==
    STRATEGIES[CHOOSE i \in 1..Len(STRATEGIES) :
                  /\ Succeeds(page, STRATEGIES[i])
                  /\ \A j \in 1..(i - 1) : ~Succeeds(page, STRATEGIES[j])]

\* the strategy that succeeded on the first of the pages before page number
\* n (1-based) that yielded rows, "" when none of them did
SucceededBefore(n) ==
    LET yielding == {j \in 1..(n - 1) : Yields(doc.pages[j])}
    IN  IF yielding = {} THEN ""
        ELSE FirstSuccess(doc.pages[CHOOSE j \in yielding : \A k \in yielding : j <= k])

\* _extract_page has just been called on page number pg
PageExtracted == pc = "page" /\ pg >= 1

\* C16: _extract_page calls the preferred strategy, if one is given, then
\* table, table_relaxed, words, lines, in this order; it stops at the first
\* call that gives a good row and returns its rows and name; and the
\* preferred strategy it is given is the one that succeeded on the first
\* page that yielded rows.
C16_StrategyOrder ==
    PageExtracted =>
        LET page  == doc.pages[pg]
            order == (IF tried.preferred # "" THEN <<tried.preferred>> ELSE <<>>)
                     \o STRATEGIES
            calls == tried.calls
            n     == Len(calls)
        IN  /\ n >= 1 /\ n <= Len(order)
            /\ calls = SubSeq(order, 1, n)
            /\ \A i \in 1..(n - 1) : ~Succeeds(page, calls[i])
            /\ n < Len(order) => Succeeds(page, calls[n])
            /\ _extract_page(page, tried.preferred) =
                   IF Succeeds(page, calls[n])
                   THEN <<page.out[calls[n]], calls[n]>>
                   ELSE << <<>>, "" >>
            /\ tried.preferred = SucceededBefore(pg)

\* the second page is extracted with the strategy of the first as preferred,
\* which fails on it, and the scan stops at its first strategy
C16_Witness ==
    /\ PageExtracted
    /\ pg = 2
    /\ tried = [preferred |-> "words", calls |-> <<"words", "table">>]
    /\ Len(all_pages) = 2

\* C17: within one call of _extract_page no strategy is called twice.
C17_NoRetry ==
    PageExtracted =>
        \A i, j \in 1..Len(tried.calls) : tried.calls[i] = tried.calls[j] => i = j

\* the call of the strategy on the page raises inside
Raises(page, name) == page.bad \/ name \in page.raising

\* C18: a strategy that raises on a page gives no rows and the next strategy
\* is called; when no strategy succeeds _extract_page returns ([], None); and
\* a page without rows adds no row list to the pages of the document.
C18_StrategyExceptionSwallowed ==
    PageExtracted =>
        LET page   == doc.pages[pg]
            order  == (IF tried.preferred # "" THEN <<tried.preferred>> ELSE <<>>)
                      \o STRATEGIES
            calls  == tried.calls
            result == _extract_page(page, tried.preferred)
        IN  /\ \A i \in 1..Len(calls) : Raises(page, calls[i]) =>
                   /\ result[2] # calls[i]
                   /\ i < Len(order) => (i < Len(calls) /\ calls[i + 1] = order[i + 1])
            /\ ~Yields(page) => result = << <<>>, "" >>
            /\ Len(all_pages) = Cardinality({j \in 1..pg : Yields(doc.pages[j])})

\* after a page that cannot be read, a page on which both table strategies
\* raise has given the rows of word clustering
C18_Witness ==
    /\ PageExtracted
    /\ pg = 2
    /\ doc.pages[1].bad
    /\ doc.pages[2] = PageTableRaises
    /\ tried.calls = <<"table", "table_relaxed", "words">>
    /\ all_pages = <<PageTableRaises.out["words"]>>

\* the first page of the document can be opened and read
FirstPageRead ==
    /\ doc.openable
    /\ doc.fault # "detect"
    /\ doc.pages # <<>>
    /\ ~doc.pages[1].bad

HasCanaraKeyword == \E p \in doc.kw : Lower(p) \in _CANARA_KEYWORDS

HasKotakKeyword == \E p \in doc.kw : Lower(p) \in _KOTAK_KEYWORDS

\* C19: once the bank is detected it is 'canara' when the lower-cased text of
\* the first page has a Canara keyword (a Kotak keyword may be there too),
\* else 'kotak' when it has a Kotak keyword, else 'generic'; a document
\* without pages or that cannot be opened is 'generic'; only 'canara' goes to
\* the raw-text parser, the other profiles go through the extraction stages.
C19_KeywordDetectionOrdered ==
    pc # "start" =>
        /\ bank = IF FirstPageRead /\ HasCanaraKeyword THEN "canara"
                  ELSE IF FirstPageRead /\ HasKotakKeyword THEN "kotak"
                  ELSE "generic"
        /\ pc = "canara" => bank = "canara"
        /\ pc \in {"open", "page", "columns", "rows", "normalize"} => bank # "canara"

\* a first page with both a Canara and a Kotak keyword is at the raw-text parser
C19_Witness ==
    /\ pc = "canara"
    /\ bank = "canara"
    /\ HasCanaraKeyword
    /\ HasKotakKeyword

\* the lines of the first page begin with Canara's DD-MM-YYYY date
CanaraDateSignature ==
    /\ doc.pages # <<>>
    /\ \E i \in 1..Len(doc.pages[1].lines) :
           /\ doc.pages[1].lines[i].k = "txn"
           /\ doc.pages[1].lines[i].date.s = "d-m-Y"

\* C20: a document without bank keyword whose lines begin with Canara's
\* DD-MM-YYYY date is given the 'canara' profile.
C20_DateSignatureFallback ==
    (pc # "start" /\ FirstPageRead /\ ~HasCanaraKeyword /\ ~HasKotakKeyword
        /\ CanaraDateSignature) => bank = "canara"

\* the row is not a title row and its header match is a valid map
SingleHeader(r) == ~_is_title_row(r.row) /\ _valid_map(_match_header(r.row))

\* the row has a row below it on its page and the two, merged, match a valid map
PairHeader(r) ==
    /\ r.ri + 1 < Len(all_pages[r.pg + 1])
    /\ _valid_map(_match_header(_merge_rows(r.row, all_pages[r.pg + 1][r.ri + 2])))

\* C21: the column map, header row and header page are those of the first row,
\* in page then row order and title rows left out, whose header match is a
\* valid map; without such a row, those of the first adjacent pair of rows
\* whose cell-wise merge matches a valid map, the header row being the second
\* of the pair; without such a pair, those of the statistical inference.
C21_TiersInOrder ==
    pc = "rows" =>
        LET rows == Located(all_pages, 0)
            n    == Len(rows)
            got  == <<col_map, hdr_row, hdr_page>>
        IN  IF \E i \in 1..n : SingleHeader(rows[i])
            THEN \E i \in 1..n :
                    /\ SingleHeader(rows[i])
                    /\ \A j \in 1..(i - 1) : ~SingleHeader(rows[j])
                    /\ got = <<_match_header(rows[i].row), rows[i].ri, rows[i].pg>>
            ELSE IF \E i \in 1..n : PairHeader(rows[i])
            THEN \E i \in 1..n :
                    /\ PairHeader(rows[i])
                    /\ \A j \in 1..(i - 1) : ~PairHeader(rows[j])
                    /\ got = <<_match_header(_merge_rows(rows[i].row, rows[i + 1].row)),
                               rows[i].ri + 1, rows[i].pg>>
            ELSE got = _infer_columns(all_pages)

\* the header of the second page, wrapped onto two lines, is found by the
\* second tier, no single row of the two pages qualifying
C21_Witness ==
    /\ pc = "rows"
    /\ doc.pages = <<PagePlain, PageTwoLine>>
    /\ hdr_page = 1
    /\ hdr_row = 2
    /\ col_map = [date |-> 0, description |-> 1, debit |-> 2, credit |-> 3, balance |-> 4]

\* the rows of all pages that are not at or before the header row index on
\* the header page
BelowHeader ==
    SelectSeq(Located(all_pages, 0),
              LAMBDA r : ~(r.pg = hdr_page /\ r.ri <= hdr_row))

\* C22: the transactions of row extraction are those made of the rows that
\* are not at or before the header row index on the header page, and of no
\* other row; every row of every other page is among them.
C22_HeaderRowsLeftOut ==
    Segmented =>
        /\ raw = RowsFold(<<>>, [i \in 1..Len(BelowHeader) |-> BelowHeader[i].row],
                          col_map, Ignored(col_map))
        /\ \A p \in 1..Len(all_pages) : p - 1 # hdr_page =>
              \A i \in 1..Len(all_pages[p]) :
                 \E k \in 1..Len(BelowHeader) :
                    BelowHeader[k].pg = p - 1 /\ BelowHeader[k].ri = i - 1

\* the header is on the second page: the rows of the first page, from row 0
\* on, and the rows below the header have given transactions
C22_Witness ==
    /\ Segmented
    /\ doc.pages = <<PagePlain, PageFooter>>
    /\ hdr_page = 1
    /\ hdr_row = 0
    /\ Len(raw) = 5

\* ------------------------------------------------- claims on _infer_columns
\* the rows of all pages
AllRows == [i \in 1..Len(Located(all_pages, 0)) |-> Located(all_pages, 0)[i].row]

\* no row and no pair of rows is a header, and all rows have the same width
Headerless ==
    /\ all_pages # <<>>
    /\ \A i \in 1..Len(Located(all_pages, 0)) :
          /\ ~SingleHeader(Located(all_pages, 0)[i])
          /\ ~PairHeader(Located(all_pages, 0)[i])
          /\ Len(AllRows[i]) = Len(AllRows[1])

\* ten times the number of values of column ci (0-based) for which P holds
TenTimes(ci, P(_)) == 10 * Cardinality({i \in 1..Len(AllRows) : P(AllRows[i][ci + 1])})

IndexColumn(ci) == TenTimes(ci, IsIndexText) > 6 * Len(AllRows)

DateColumn(ci) == TenTimes(ci, LAMBDA v : _try_date(v) # NoDate) > 4 * Len(AllRows)

TextColumn(ci) ==
    TenTimes(ci, LAMBDA v : CellLen(v) > 8 /\ ~_is_num(v) /\ _try_date(v) = NoDate)
        > 4 * Len(AllRows)

NumericColumn(ci) == TenTimes(ci, _is_num) > 3 * Len(AllRows)

\* the role is given to the least column of the set, and to none when the
\* set is empty
GivenToFirst(role, S) ==
    IF S = {} THEN role \notin DOMAIN col_map
    ELSE /\ role \in DOMAIN col_map
         /\ col_map[role] \in S
         /\ \A x \in S : col_map[role] <= x

\* the columns of S that have k columns of S to their left
Nth(S, k) == {ci \in S : Cardinality({x \in S : x < ci}) = k}

\* C23: on a table without header the inference gives no map to fewer than 3
\* rows; otherwise `_index` goes to the first column with more than 60% index
\* values, `date` to the first other column with more than 40% dates,
\* `description` to the first remaining column with more than 40% long texts,
\* and `debit`, `credit`, `balance` to the first three remaining columns, from
\* the left, with more than 30% numbers; no column has two roles.
C23_VoteThresholds ==
    (pc \in {"rows", "done"} /\ ~caught /\ Headerless /\ Len(AllRows) <= SAMPLE_ROWS) =>
        IF Len(AllRows) < 3 THEN col_map = EmptyMap
        ELSE LET W    == 0..(Len(AllRows[1]) - 1)
                 I    == {ci \in W : IndexColumn(ci)}
                 D    == {ci \in W \ I : DateColumn(ci)}
                 D1   == Nth(D, 0)
                 T    == {ci \in W \ (I \cup D1) : TextColumn(ci)}
                 T1   == Nth(T, 0)
                 N    == {ci \in W \ (I \cup D1 \cup T1) : NumericColumn(ci)}
             IN  /\ GivenToFirst("_index", I)
                 /\ GivenToFirst("date", D)
                 /\ GivenToFirst("description", T)
                 /\ GivenToFirst("debit", Nth(N, 0))
                 /\ GivenToFirst("credit", Nth(N, 1))
                 /\ GivenToFirst("balance", Nth(N, 2))
                 /\ DOMAIN col_map \subseteq
                       {"_index", "date", "description", "debit", "credit", "balance"}
                 /\ \A r1, r2 \in DOMAIN col_map : col_map[r1] = col_map[r2] => r1 = r2

\* five rows: 3 of 5 dates make the date column, 2 of 5 numbers a numeric
\* column, and a column with 3 of 5 index values is numeric, not the index
C23_Witness ==
    /\ pc = "rows"
    /\ Headerless
    /\ Len(AllRows) = 5
    /\ DateColumn(0) /\ NumericColumn(1) /\ ~IndexColumn(2) /\ NumericColumn(2)
    /\ TenTimes(2, IsIndexText) = 6 * Len(AllRows)
    /\ col_map = [date |-> 0, debit |-> 1, credit |-> 2]

\* ----------------------------------------------- claims on the amount lexers
\* the rows have been segmented with a map that has `amount` and neither
\* `debit` nor `credit`
SingleAmountColumn ==
    /\ Segmented
    /\ "amount" \in DOMAIN col_map
    /\ DOMAIN col_map \cap {"debit", "credit"} = {}

\* the <<debit, credit>> the writing of an amount cell stands for
DirectedSides(c) ==
    IF c.k # "amt" \/ c.n = 0 THEN <<0, 0>>
    ELSE IF c.s \in {"()", "-", "DR"} THEN <<c.n, 0>>
    ELSE IF c.s \in {"CR", "Cr", "Cr."} THEN <<0, c.n>>
    ELSE <<c.n, 0>>

\* C24: under a single amount column the cell of every row is read as a debit
\* when it is in parentheses, begins with a minus or ends in DR, as a credit
\* when it ends in CR, Cr or Cr., as a debit when it has no such mark, and as
\* (0, 0) when it is zero or no amount.
C24_DirectedSign ==
    SingleAmountColumn =>
        \A k \in 1..Len(DataRows) :
            LET c == _cell(DataRows[k], col_map["amount"]) IN
            c.k \in {"amt", "text", "empty"} =>
                /\ _parse_amt_directed(c) = DirectedSides(c)
                /\ Len(TxnsAfter(k)) > Len(TxnsBefore(k)) =>
                      TxnsAfter(k)[Len(TxnsAfter(k))].type =
                          IF DirectedSides(c)[1] > 0 THEN "DR" ELSE "CR"

\* --------------------------------------------------- claims on _parse_canara
\* the lines _parse_canara reads: those of the pages before the first page
\* that cannot be read
RECURSIVE LinesRead(_)
LinesRead(pages) ==
    IF pages = <<>> \/ Head(pages).bad THEN <<>>
    ELSE Head(pages).lines \o LinesRead(Tail(pages))

\* the raw-text parser has run
CanaraParsed == bank = "canara" /\ pc \in {"return", "except", "done"}

\* the amount token of an anchor line: the last but one
AmountToken(line) == line.nums[Len(line.nums) - 1]

\* the line begins with a date of a year from 2000 to 2035 and its remainder
\* has two amount tokens or more, the last but one not zero
Anchor(line) ==
    /\ line.k = "txn"
    /\ _try_date(line.date) # NoDate
    /\ Len(line.nums) >= 2
    /\ AmountToken(line) # 0

\* C25: the raw transaction of every anchor line has the type CR when its
\* amount token has a minus and DR otherwise, the magnitude of that token as
\* amount and the magnitude of the last token as balance.
C25_SignOfTokenGivesType ==
    CanaraParsed =>
        LET anchors == SelectSeq(LinesRead(doc.pages), Anchor) IN
        /\ Len(raw) = Len(anchors)
        /\ \A i \in 1..Len(anchors) :
              /\ raw[i].type = IF AmountToken(anchors[i]) < 0 THEN "CR" ELSE "DR"
              /\ raw[i].amount = Abs(AmountToken(anchors[i]))
              /\ raw[i].balance = Abs(anchors[i].nums[Len(anchors[i].nums)])

\* a line of three tokens with a minus on the middle one gave a credit, and
\* a line with a minus on the balance only a debit
C25_Witness ==
    /\ CanaraParsed
    /\ doc.pages = <<PageCanaraMixed>>
    /\ Len(raw) = 2
    /\ raw[1].type = "CR" /\ raw[1].amount = 25000 /\ raw[1].balance = 105000
    /\ raw[2].type = "DR" /\ raw[2].amount = 20000 /\ raw[2].balance = 85000

\* the line begins with the date and its remainder has exactly one amount token
OneAmountAnchor(line) ==
    /\ line.k = "txn"
    /\ _try_date(line.date) # NoDate
    /\ Len(line.nums) = 1
    /\ line.nums[1] # 0

\* C26: every anchor line with two amount tokens gives a transaction with
\* amount and balance, and every anchor line with exactly one amount token
\* gives a transaction with that amount and no balance.
C26_OneAmountAnchor ==
    CanaraParsed =>
        LET anchors == SelectSeq(LinesRead(doc.pages),
                                 LAMBDA l : Anchor(l) \/ OneAmountAnchor(l)) IN
        /\ Len(raw) = Len(anchors)
        /\ \A i \in 1..Len(anchors) : OneAmountAnchor(anchors[i]) =>
              /\ raw[i].amount = Abs(anchors[i].nums[1])
              /\ raw[i].balance = None

\* the position, among the lines read, of the i-th anchor line
AnchorPosition(lines, i) ==
    CHOOSE a \in 1..Len(lines) :
        /\ Anchor(lines[a])
        /\ Cardinality({b \in 1..(a - 1) : Anchor(lines[b])}) = i - 1

\* the narration that follows the line at position a: the lines that are not
\* skipped, up to the next anchor line or Chq: line, space-joined
NarrationAfter(lines, a) ==
    LET stops == {j \in (a + 1)..Len(lines) : Anchor(lines[j]) \/ lines[j].k = "chq"}
        stop  == IF stops = {} THEN Len(lines) + 1
                 ELSE CHOOSE j \in stops : \A x \in stops : j <= x
        narr  == SelectSeq(SubSeq(lines, a + 1, stop - 1),
                           LAMBDA l : l.k \notin {"blank", "skip"})
    IN  JoinAll([j \in 1..Len(narr) |-> narr[j].w])

\* C27: the description of every raw transaction is made of the lines that
\* follow its anchor line, up to the next anchor line or Chq: line, the lines
\* of the pages read taken as one list.
C27_NarrationFollowsAnchor ==
    CanaraParsed =>
        LET lines == LinesRead(doc.pages) IN
        \A i \in 1..Len(raw) :
            raw[i].desc = _canara_clean_desc(NarrationAfter(lines, AnchorPosition(lines, i)))

\* ------------------------------------------------ claims on footer recovery
\* the number of rows of the list whose first cell is the index x
CountIndex(rows, x) ==
    Cardinality({i \in 1..Len(rows) : FirstIsDigit(rows[i]) /\ rows[i][1].n = x})

\* C28: when a page adds its list of rows, a row that was recovered from the
\* text has an index that no table row of this or an earlier page and no row
\* recovered before has, and it has the 7 cells index, date, description,
\* reference, withdrawal, '', balance.
C28_RecoveryNeverDuplicates ==
    [][(pc = "page" /\ Len(all_pages') = Len(all_pages) + 1) =>
          LET table  == _extract_page(doc.pages[pg + 1], best_strategy)[1]
              merged == all_pages'[Len(all_pages')]
              known  == seen_indices \cup IndicesOf(table)
          IN  /\ \A x \in IndicesOf(merged) :
                    CountIndex(merged, x) > CountIndex(table, x) =>
                        (x \notin known /\ CountIndex(merged, x) = 1)
              /\ \A i \in 1..Len(merged) :
                    (\A j \in 1..Len(table) : table[j] # merged[i]) =>
                        /\ Len(merged[i]) = 7
                        /\ merged[i][1].k = "idx"
                        /\ merged[i][2].k = "date"
                        /\ merged[i][3].k \in {"text", "empty"}
                        /\ merged[i][5].k \in {"amt", "empty"}
                        /\ merged[i][6] = Empty
                        /\ merged[i][7].k \in {"amt", "empty"}
                        /\ merged[i][5].k = "amt" => merged[i][7].k = "amt"
      ]_vars

\* ---------------------------------------------------- claims on _parse_row
\* the row is gone through by _parse_row and has a date
DatedRow(row) ==
    /\ ~_is_title_row(row) /\ ~_is_header_row_repeat(row) /\ ~_should_skip_row(row)
    /\ Len(row) >= 2
    /\ RowDate(row, col_map, Ignored(col_map)) # NoDate
    /\ ~("_index" \in DOMAIN col_map /\ _cell(row, col_map["_index"]).k = "dash")

\* the row adds a transaction of this type and amount
Emits(k, type, amount) ==
    /\ Len(TxnsAfter(k)) = Len(TxnsBefore(k)) + 1
    /\ TxnsAfter(k)[Len(TxnsAfter(k))].type = type
    /\ TxnsAfter(k)[Len(TxnsAfter(k))].amount = amount

\* C29: under a map without `amount`, a dated row whose mapped debit cell
\* holds a positive amount gives a DR transaction of that amount, whether the
\* map has `credit` or not; under a map with `credit` and without `debit` a
\* positive credit cell gives a CR transaction of that amount.
C29_MappedDebitCredit ==
    (Segmented /\ "amount" \notin DOMAIN col_map) =>
        \A k \in 1..Len(DataRows) : DatedRow(DataRows[k]) =>
            /\ "debit" \in DOMAIN col_map =>
                  LET d == _parse_amt(_cell(DataRows[k], col_map["debit"])) IN
                  d > 0 => Emits(k, "DR", d)
            /\ ("credit" \in DOMAIN col_map /\ "debit" \notin DOMAIN col_map) =>
                  LET c == _parse_amt(_cell(DataRows[k], col_map["credit"])) IN
                  c > 0 => Emits(k, "CR", c)

\* ------------------------------------------------- claims on deduplication
\* the two raw records agree on date, amount, type, trimmed description and
\* balance
SameRecord(a, b) ==
    /\ a.date = b.date
    /\ a.amount = b.amount
    /\ a.type = b.type
    /\ Strip(a.desc) = Strip(b.desc)
    /\ a.balance = b.balance

\* the i-th record of the argument list was not kept: Step 3 gave it no category
Dropped(i) == txns[i].category = ""

\* C30: of two raw records that agree on date, amount, type, trimmed
\* description and balance, the later one is not in the output of _normalize.
C30_LaterDuplicateDropped ==
    (pc = "done" /\ ~caught /\ Len(txns) = Len(raw)) =>
        \A i, j \in 1..Len(raw) :
            (i < j /\ SameRecord(raw[i], raw[j])) => Dropped(j)
====
